---- MODULE Spec2Model ----
(***************************************************************************)
(* Concept mastery and spaced repetition engine of the research paper      *)
(* mentor backend: the in-memory stores of app/api/routes, the quiz        *)
(* grading handler, the mastery aggregation _update_progress and the SM-2  *)
(* scheduler of app/services/spaced_repetition.py.                         *)
(*                                                                         *)
(* Numbers: Python floats are modelled by exact rationals [num, den] in    *)
(* lowest terms (scores, mastery levels, percentages) and the SM-2 ease    *)
(* factor by an integer number of hundredths.  Timestamps are integer      *)
(* days of a global clock.  Ids are uuid4 strings in the code, so the      *)
(* store key f"{user_id}_{paper_id}" is injective and is modelled by the   *)
(* pair <<user_id, paper_id>>.                                             *)
(***************************************************************************)
EXTENDS Integers, Sequences, FiniteSets, TLC

\* ------------------------------------------------------------------ bounds
\* days the clock advances
MaxTime == 1
\* quiz submissions accepted after startup
MaxResults == 2
\* quizzes generated
MaxQuizzes == 1
\* scheduler calls
MaxUpdates == 3

\* -------------------------------------------------------------- universes
Users == {"u1", "u2"}
Papers == {"p1", "p2"}
QuizIds == 1..MaxQuizzes
Keys == Users \X Papers
None == "None"
\* "no concept graph stored for the paper", comparable with a concept list
NoGraph == <<[id |-> None, importance_score |-> 0 - 1]>>
\* an Optional timestamp that is None
NoTime == 0 - 1

\* ------------------------------------------------------- exact rationals
RECURSIVE GCD(_, _)
GCD(a, b) == IF b = 0 THEN a ELSE GCD(b, a % b)

Rat(n, d) == LET g == GCD(n, d) IN [num |-> n \div g, den |-> d \div g]
Zero == [num |-> 0, den |-> 1]
One == [num |-> 1, den |-> 1]
RatAdd(x, y) == Rat(x.num * y.den + y.num * x.den, x.den * y.den)
RatDivInt(x, n) == Rat(x.num, x.den * n)
RatMulInt(x, n) == Rat(x.num * n, x.den)
RatLe(x, y) == x.num * y.den <= y.num * x.den
\* int(x) of a non-negative float: truncation
RatInt(x) == x.num \div x.den
\* round(x) of a non-negative float: nearest integer, ties to even
RatRound(x) ==
    LET q == x.num \div x.den
        r2 == 2 * (x.num % x.den)
    IN  IF r2 < x.den THEN q
        ELSE IF r2 > x.den THEN q + 1
        ELSE IF q % 2 = 0 THEN q ELSE q + 1

\* sum(...) of Python: left fold from 0
RECURSIVE SumRat(_)
SumRat(s) == IF s = <<>> THEN Zero
             ELSE RatAdd(SumRat(SubSeq(s, 1, Len(s) - 1)), s[Len(s)])

\* ------------------------------------------------------------ data model
\* Concept (id, importance_score in tenths); the other fields play no part
Concept(id, imp) == [id |-> id, importance_score |-> imp]
\* ConceptGraph.concepts as produced by ConceptExtractor.extract_concepts:
\* fresh uuid4 ids per extraction, so the ids of two papers never overlap
GraphChoices(p) ==
    IF p = "p1"
    THEN {<<Concept("a", 5), Concept("b", 9)>>, <<Concept("a", 5)>>, <<>>}
    ELSE {<<Concept("c", 5)>>}
ConceptIds == {"a", "b", "c"}
\* the concept ids an extraction of paper p can produce
GraphIds(p) == UNION {{g[i].id : i \in 1..Len(g)} : g \in GraphChoices(p)}

\* QuizResult: the fields the aggregation reads
QuizResult(qid, u, p, cs, pct, total, correct) ==
    [quiz_id |-> qid, user_id |-> u, paper_id |-> p, concept_scores |-> cs,
     score_percentage |-> pct, total_questions |-> total,
     correct_answers |-> correct, parseable |-> TRUE]
\* a persisted record that QuizResult(**data) rejects
CorruptResult == [parseable |-> FALSE]

\* ConceptMastery(concept_id, paper_id, mastery_level, times_quizzed,
\* times_reviewed); last_reviewed defaults to None and first_encountered
\* to datetime.utcnow() at construction
ConceptMastery(cid, p, m, tq, tr, t) ==
    [concept_id |-> cid, paper_id |-> p, mastery_level |-> m,
     times_reviewed |-> tr, times_quizzed |-> tq, last_reviewed |-> None,
     first_encountered |-> t]

\* UserProgress(user_id, paper_id) with its defaults
UserProgress(u, p, t) ==
    [user_id |-> u, paper_id |-> p, completion_percentage |-> 0,
     concepts_mastery |-> <<>>, quiz_attempts |-> 0,
     average_quiz_score |-> Zero, started_at |-> t]

NoProgress == [user_id |-> None]

\* no query answered yet
NoAnswer == [op |-> None]

\* Quiz: one Question per entry of questions, each tagged with a concept id
Quiz(p, u, qs) == [paper_id |-> p, user_id |-> u, questions |-> qs]

\* ------------------------------------------------------- persisted files
EmptyStorage ==
    [papers |-> {}, concept_graphs |-> <<>>, quizzes |-> <<>>,
     quiz_results |-> [k \in Keys |-> <<>>],
     user_progress |-> [k \in Keys |-> NoProgress]]

\* files of an earlier run whose graph of p1 was regenerated: the stored
\* result still scores the concept "c" that the graph no longer holds
RegeneratedStorage ==
    [papers |-> {"p1"},
     concept_graphs |-> [p \in {"p1"} |-> <<Concept("a", 5), Concept("b", 9)>>],
     quizzes |-> <<>>,
     quiz_results |-> [k \in Keys |->
        IF k = <<"u1", "p1">>
        THEN <<QuizResult(0, "u1", "p1", [c \in {"a", "c"} |-> IF c = "a" THEN One ELSE Zero],
                          Rat(50, 1), 2, 1)>>
        ELSE <<>>],
     user_progress |-> [k \in Keys |->
        IF k = <<"u1", "p1">>
        THEN [UserProgress("u1", "p1", 0) EXCEPT
                !.completion_percentage = 50,
                !.quiz_attempts = 1,
                !.average_quiz_score = Rat(50, 1),
                !.concepts_mastery =
                    <<ConceptMastery("a", "p1", One, 1, 1, 0),
                      ConceptMastery("c", "p1", Zero, 1, 1, 0)>>]
        ELSE NoProgress]]

\* files whose quiz-result history of (u1, p1) was lost while the stored
\* progress of that pair was kept
StaleProgressStorage ==
    [papers |-> {"p1"},
     concept_graphs |-> [p \in {"p1"} |-> <<Concept("a", 5), Concept("b", 9)>>],
     quizzes |-> <<>>,
     quiz_results |-> [k \in Keys |-> <<>>],
     user_progress |-> [k \in Keys |->
        IF k = <<"u1", "p1">>
        THEN [UserProgress("u1", "p1", 0) EXCEPT
                !.completion_percentage = 50,
                !.quiz_attempts = 1,
                !.average_quiz_score = Rat(50, 1),
                !.concepts_mastery =
                    <<ConceptMastery("a", "p1", One, 1, 1, 0),
                      ConceptMastery("b", "p1", Zero, 1, 1, 0)>>]
        ELSE NoProgress]]

StorageImages == {EmptyStorage, RegeneratedStorage, StaleProgressStorage}

\* ------------------------------------------------------------------ state
VARIABLES
    phase,              \* "startup" before lifespan has loaded, then "running"
    storage,            \* the JSON files read at startup
    now,                \* datetime.utcnow(), in days
    papers_db,          \* papers.papers_db (the ids)
    deleted,            \* ids of deleted papers (uuid4 ids are never reused)
    concept_graphs_db,  \* papers.concept_graphs_db: paper id -> concepts
    quizzes_db,         \* quiz.quizzes_db: quiz id -> Quiz
    quiz_results_db,    \* quiz.quiz_results_db: key -> list of QuizResult
    user_progress_db,   \* progress.user_progress_db: key -> UserProgress
    response,           \* HTTP status of the last request (0: none yet)
    understanding,      \* a ConceptUnderstanding record of the SM-2 path
    returned,           \* what the last update_concept_understanding returned
    updates,            \* number of scheduler calls made
    understandings,     \* the List[ConceptUnderstanding] the review queries read
    study_sessions_db,  \* progress.study_sessions_db: user id -> start days
    answer              \* what the last query returned

vars == <<phase, storage, now, papers_db, deleted, concept_graphs_db,
          quizzes_db, quiz_results_db, user_progress_db, response,
          understanding, returned, updates, understandings,
          study_sessions_db, answer>>

storeVars == <<papers_db, deleted, concept_graphs_db, quizzes_db,
               quiz_results_db, user_progress_db>>
sm2Vars == <<understanding, returned, updates>>
queryVars == <<understandings, study_sessions_db, answer>>

\* a history key that leaves the user out
KeyOfPaper(u, p) == <<"u1", p>>

\* f"{user_id}_{paper_id}"
KeyOf(u, p) == <<u, p>>

\* --------------------------------------------------------------- startup
\* ConceptUnderstanding(user_id, concept_id, paper_id) with its defaults
FreshUnderstanding ==
    [concept_id |-> "a", is_understood |-> FALSE, confidence_level |-> Zero,
     times_reviewed |-> 0, times_quizzed |-> 0, correct_answers |-> 0,
     last_reviewed |-> NoTime, next_review |-> NoTime,
     ease_factor |-> 250, interval_days |-> 1]

\* the record after eight reviews of score 0.6 (quality 3) on day 0: each
\* lowers the ease factor by 0.14, the intervals run 6, 13, 27, 52, 93, 154,
\* 234, 322
SeasonedUnderstanding ==
    [concept_id |-> "a", is_understood |-> TRUE, confidence_level |-> One,
     times_reviewed |-> 8, times_quizzed |-> 8, correct_answers |-> 8,
     last_reviewed |-> 0, next_review |-> 322,
     ease_factor |-> 138, interval_days |-> 322]

InitWith(images, records) ==
    /\ phase = "startup"
    /\ storage \in images
    /\ now = 0
    /\ papers_db = {}
    /\ deleted = {}
    /\ concept_graphs_db = <<>>
    /\ quizzes_db = <<>>
    /\ quiz_results_db = [k \in Keys |-> <<>>]
    /\ user_progress_db = [k \in Keys |-> NoProgress]
    /\ response = 0
    /\ understanding \in records
    /\ returned = understanding
    /\ updates = 0
    /\ understandings = <<>>
    /\ study_sessions_db = [u \in Users |-> <<>>]
    /\ answer = NoAnswer

Init == InitWith(StorageImages, {FreshUnderstanding})

\* RESTORE QUIZ RESULTS of lifespan: one failing QuizResult(**result_data)
\* raises inside the try of its key, which is then not stored at all
RestoreResults(results_list) ==
    IF \A i \in 1..Len(results_list) : results_list[i].parseable
    THEN results_list ELSE <<>>

\* lifespan startup: load_all_databases and the restore loops
Lifespan ==
    /\ phase = "startup"
    /\ phase' = "running"
    /\ papers_db' = storage.papers
    /\ concept_graphs_db' = storage.concept_graphs
    /\ quizzes_db' = storage.quizzes
    /\ quiz_results_db' = [k \in Keys |-> RestoreResults(storage.quiz_results[k])]
    /\ user_progress_db' = storage.user_progress
    /\ UNCHANGED <<storage, now, deleted, response, sm2Vars, queryVars>>

\* the wall clock advances
Tick ==
    /\ now < MaxTime
    /\ now' = now + 1
    /\ UNCHANGED <<phase, storage, storeVars, response, sm2Vars, queryVars>>

\* ---------------------------------------------------------------- papers
\* POST /papers/upload: a fresh uuid4 id; the concept graph is stored only
\* when extraction succeeds (graph = NoGraph: extract_concepts raised)
upload_paper(u, p, processed, graph) ==
    /\ phase = "running"
    /\ p \notin papers_db \cup deleted
    /\ IF ~processed
       THEN /\ response' = 500
            /\ UNCHANGED storeVars
       ELSE /\ papers_db' = papers_db \cup {p}
            /\ concept_graphs_db' =
                 IF graph = NoGraph THEN concept_graphs_db
                 ELSE (p :> graph) @@ concept_graphs_db
            /\ response' = 200
            /\ UNCHANGED <<deleted, quizzes_db, quiz_results_db, user_progress_db>>
    /\ UNCHANGED <<phase, storage, now, sm2Vars, queryVars>>

\* DELETE /papers/{paper_id}
delete_paper(u, p) ==
    /\ phase = "running"
    /\ IF p \notin papers_db
       THEN /\ response' = 404
            /\ UNCHANGED storeVars
       ELSE /\ papers_db' = papers_db \ {p}
            /\ deleted' = deleted \cup {p}
            /\ concept_graphs_db' =
                 [x \in DOMAIN concept_graphs_db \ {p} |-> concept_graphs_db[x]]
            /\ response' = 200
            /\ UNCHANGED <<quizzes_db, quiz_results_db, user_progress_db>>
    /\ UNCHANGED <<phase, storage, now, sm2Vars, queryVars>>

\* ----------------------------------------------------------------- quizzes
\* largest num_questions of a quiz request
MaxQuestions == 2

\* sorted(concepts, key=importance_score, reverse=True): stable
RECURSIVE SortByImportance(_)
SortByImportance(s) ==
    IF s = <<>> THEN <<>>
    ELSE LET h == Head(s)
             r == SortByImportance(Tail(s))
             k == Cardinality({i \in 1..Len(r) :
                     r[i].importance_score > h.importance_score})
         IN  SubSeq(r, 1, k) \o <<h>> \o SubSeq(r, k + 1, Len(r))

\* QuizGenerator._select_concepts_for_quiz
SelectConceptsForQuiz(concepts, num_questions) ==
    SubSeq(SortByImportance(concepts), 1,
           IF num_questions < Len(concepts) THEN num_questions ELSE Len(concepts))

FocusFilter(concepts, focus) ==
    IF focus = {} THEN concepts
    ELSE SelectSeq(concepts, LAMBDA c : c.id \in focus)

\* QuizGenerator.generate_quiz: one question per selected concept, dropped
\* when the LLM gives no question for it; the result is the list of the
\* questions' concept ids
GenerateQuestions(concepts, num_questions, focus, llm_fail) ==
    LET selected == SelectConceptsForQuiz(FocusFilter(concepts, focus), num_questions)
        asked == SelectSeq(selected, LAMBDA c : c.id \notin llm_fail)
    IN  [i \in 1..Len(asked) |-> asked[i].id]

FreshQuizId == CHOOSE q \in QuizIds \ DOMAIN quizzes_db :
                  \A r \in QuizIds \ DOMAIN quizzes_db : q <= r

\* POST /quiz/generate (focus = {}: no focus_concepts in the request)
generate_quiz(u, p, num_questions, focus, llm_fail) ==
    /\ phase = "running"
    /\ IF p \notin papers_db
       THEN /\ response' = 404
            /\ UNCHANGED storeVars
       ELSE IF p \notin DOMAIN concept_graphs_db \/ concept_graphs_db[p] = <<>>
       THEN /\ response' = 400
            /\ UNCHANGED storeVars
       ELSE /\ QuizIds \ DOMAIN quizzes_db # {}
            /\ LET concepts == FocusFilter(concept_graphs_db[p], focus)
                   n == IF num_questions > Len(concepts) THEN Len(concepts)
                        ELSE num_questions
                   qs == GenerateQuestions(concepts, n, focus, llm_fail)
               IN  /\ quizzes_db' = (FreshQuizId :> Quiz(p, u, qs)) @@ quizzes_db
                   /\ response' = 200
            /\ UNCHANGED <<papers_db, deleted, concept_graphs_db,
                           quiz_results_db, user_progress_db>>
    /\ UNCHANGED <<phase, storage, now, sm2Vars, queryVars>>

\* grading loop of submit_quiz: concept_scores_raw[c] is the list of 1.0 /
\* 0.0 of the questions tagged c, concept_scores[c] its mean
ConceptScoresRaw(questions, correct, c) ==
    LET idx == SelectSeq([i \in 1..Len(questions) |-> i],
                         LAMBDA i : questions[i] = c)
    IN  [j \in 1..Len(idx) |-> IF idx[j] \in correct THEN One ELSE Zero]

MeanScore(scores) == RatDivInt(SumRat(scores), Len(scores))

\* a grading that gives every concept of the quiz the score of the whole quiz
GradeQuizWhole(qid, u, quiz, correct) ==
    LET qs == quiz.questions
        total == Len(qs)
        correct_count == Cardinality(correct)
        percentage == IF total > 0 THEN Rat(correct_count * 100, total) ELSE Zero
        concept_scores ==
            [c \in {qs[i] : i \in 1..total} |-> Rat(correct_count, total)]
        answers == [i \in 1..total |-> [concept_id |-> qs[i], is_correct |-> i \in correct]]
    IN  [quiz_id |-> qid, user_id |-> u, paper_id |-> quiz.paper_id,
         concept_scores |-> concept_scores, score_percentage |-> percentage,
         total_questions |-> total, correct_answers |-> correct_count,
         parseable |-> TRUE, answers |-> answers]

\* the grading loop and the QuizResult of submit_quiz: the answers with the
\* concept of their question, the mean score of every concept of the quiz
GradeQuiz(qid, u, quiz, correct) ==
    LET qs == quiz.questions
        total == Len(qs)
        correct_count == Cardinality(correct)
        percentage == IF total > 0 THEN Rat(correct_count * 100, total) ELSE Zero
        concept_scores ==
            [c \in {qs[i] : i \in 1..total} |->
                MeanScore(ConceptScoresRaw(qs, correct, c))]
        answers == [i \in 1..total |-> [concept_id |-> qs[i], is_correct |-> i \in correct]]
    IN  [quiz_id |-> qid, user_id |-> u, paper_id |-> quiz.paper_id,
         concept_scores |-> concept_scores, score_percentage |-> percentage,
         total_questions |-> total, correct_answers |-> correct_count,
         parseable |-> TRUE, answers |-> answers]

RECURSIVE SumLen(_, _)
SumLen(f, ks) == IF ks = {} THEN 0
                 ELSE LET k == CHOOSE x \in ks : TRUE
                      IN  Len(f[k]) + SumLen(f, ks \ {k})
TotalResults == SumLen(quiz_results_db, Keys)
\* the results the startup restored from the files
RestoredResults ==
    SumLen([k \in Keys |-> RestoreResults(storage.quiz_results[k])], Keys)

\* POST /quiz/{quiz_id}/submit; correct = the questions answered correctly
submit_quiz(u, q, correct) ==
    /\ phase = "running"
    /\ IF q \notin DOMAIN quizzes_db
       THEN /\ correct = {}
            /\ response' = 404
            /\ UNCHANGED storeVars
       ELSE IF quizzes_db[q].user_id # u
       THEN /\ correct = {}
            /\ response' = 403
            /\ UNCHANGED storeVars
       ELSE /\ TotalResults - RestoredResults < MaxResults
            /\ correct \subseteq 1..Len(quizzes_db[q].questions)
            /\ LET quiz == quizzes_db[q]
                   key == KeyOf(u, quiz.paper_id)
               IN  /\ quiz_results_db' =
                        [quiz_results_db EXCEPT
                            ![key] = Append(@, GradeQuiz(q, u, quiz, correct))]
                   /\ response' = 200
            /\ UNCHANGED <<papers_db, deleted, concept_graphs_db, quizzes_db,
                           user_progress_db>>
    /\ UNCHANGED <<phase, storage, now, sm2Vars, queryVars>>

\* ------------------------------------------------------ mastery aggregation
\* the QuizResult(**result) conversion loop: unparseable records are skipped
ParseQuizResults(raw_quiz_results) ==
    SelectSeq(raw_quiz_results, LAMBDA r : r.parseable)

\* statistics that read the latest result of the history only
ConceptStatsScoresLatest(quiz_results, c) ==
    LET latest == SubSeq(quiz_results, Len(quiz_results), Len(quiz_results))
        having == SelectSeq(latest, LAMBDA r : c \in DOMAIN r.concept_scores)
    IN  [i \in 1..Len(having) |-> having[i].concept_scores[c]]

\* concept_stats[c]['scores']: the scores of c over the history, in order
ConceptStatsScores(quiz_results, c) ==
    LET having == SelectSeq(quiz_results, LAMBDA r : c \in DOMAIN r.concept_scores)
    IN  [i \in 1..Len(having) |-> having[i].concept_scores[c]]

\* a mastery that keeps only the latest score of the concept
MasteryLevelLast(scores) == scores[Len(scores)]

\* sum(stats['scores']) / len(stats['scores'])
MasteryLevel(scores) == RatDivInt(SumRat(scores), Len(scores))

\* stats['count']
TimesQuizzed(scores) == Len(scores)

\* the record appended for one concept of the graph
MasteryRecord(concept, quiz_results, p, t) ==
    LET scores == ConceptStatsScores(quiz_results, concept.id)
    IN  IF scores # <<>>
        THEN ConceptMastery(concept.id, p, MasteryLevel(scores),
                            TimesQuizzed(scores), TimesQuizzed(scores), t)
        ELSE ConceptMastery(concept.id, p, Zero, 0, 0, t)

\* an early return that leaves progress.concepts_mastery unfilled
ColdStartMasteryEmpty(graph, p, t) == <<>>

\* the cold-start list: one zero record per concept of the graph
ColdStartMastery(graph, p, t) ==
    [i \in 1..Len(graph) |-> ConceptMastery(graph[i].id, p, Zero, 0, 0, t)]

\* a rebuild that keeps only the concepts found in concept_stats
BuildConceptsMasteryTested(graph, quiz_results, p, t) ==
    SelectSeq([i \in 1..Len(graph) |-> MasteryRecord(graph[i], quiz_results, p, t)],
              LAMBDA rec : rec.times_quizzed > 0)

\* the list rebuilt from a non-empty history: one record per concept of the
\* graph, in graph order
BuildConceptsMastery(graph, quiz_results, p, t) ==
    [i \in 1..Len(graph) |-> MasteryRecord(graph[i], quiz_results, p, t)]

\* int(avg_mastery * 100)
CompletionPercentage(concepts_mastery) ==
    LET levels == [i \in 1..Len(concepts_mastery) |->
                      concepts_mastery[i].mastery_level]
        avg_mastery == RatDivInt(SumRat(levels), Len(levels))
    IN  RatInt(RatMulInt(avg_mastery, 100))

\* an average updated result by result: (previous average + score) / 2
RECURSIVE AverageQuizScoreRunning(_)
AverageQuizScoreRunning(quiz_results) ==
    IF Len(quiz_results) = 1 THEN quiz_results[1].score_percentage
    ELSE RatDivInt(RatAdd(AverageQuizScoreRunning(SubSeq(quiz_results, 1,
                                                         Len(quiz_results) - 1)),
                          quiz_results[Len(quiz_results)].score_percentage), 2)

\* total_score / len(quiz_results)
AverageQuizScore(quiz_results) ==
    LET pcts == [i \in 1..Len(quiz_results) |-> quiz_results[i].score_percentage]
    IN  RatDivInt(SumRat(pcts), Len(pcts))

\* _update_progress as a function of the stored progress, the raw history,
\* the concept graph (NoGraph when the paper has none) and the time of the call
UpdateProgress(progress, raw_quiz_results, graph, p, t) ==
    LET quiz_results == ParseQuizResults(raw_quiz_results)
    IN  IF quiz_results = <<>>
        THEN IF graph # NoGraph
             THEN [progress EXCEPT !.concepts_mastery =
                     ColdStartMastery(graph, p, t)]
             ELSE progress
        ELSE LET p1 == [progress EXCEPT
                          !.quiz_attempts = Len(quiz_results),
                          !.average_quiz_score = AverageQuizScore(quiz_results)]
                 p2 == IF graph # NoGraph
                       THEN [p1 EXCEPT !.concepts_mastery =
                               BuildConceptsMastery(graph, quiz_results, p, t)]
                       ELSE p1
             IN  IF p2.concepts_mastery # <<>>
                 THEN [p2 EXCEPT !.completion_percentage =
                          CompletionPercentage(p2.concepts_mastery)]
                 ELSE p2

GraphOf(p) == IF p \in DOMAIN concept_graphs_db THEN concept_graphs_db[p] ELSE NoGraph

\* get_or_create_progress
GetOrCreateProgress(u, p) ==
    IF user_progress_db[KeyOf(u, p)] = NoProgress
    THEN UserProgress(u, p, now)
    ELSE user_progress_db[KeyOf(u, p)]

\* get_or_create_progress followed by _update_progress, as every progress
\* read does
_update_progress(u, p) ==
    user_progress_db' =
        [user_progress_db EXCEPT ![KeyOf(u, p)] =
            UpdateProgress(GetOrCreateProgress(u, p),
                           quiz_results_db[KeyOf(u, p)], GraphOf(p), p, now)]

\* GET /progress/paper/{paper_id}
get_paper_progress(u, p) ==
    /\ phase = "running"
    /\ IF p \notin papers_db
       THEN /\ response' = 404
            /\ UNCHANGED user_progress_db
       ELSE /\ _update_progress(u, p)
            /\ response' = 200
    /\ UNCHANGED <<phase, storage, now, papers_db, deleted, concept_graphs_db,
                   quizzes_db, quiz_results_db, sm2Vars, queryVars>>

\* GET /progress/concepts/{paper_id}
get_concept_mastery(u, p) ==
    /\ phase = "running"
    /\ IF p \notin papers_db
       THEN /\ response' = 404
            /\ UNCHANGED user_progress_db
       ELSE IF p \notin DOMAIN concept_graphs_db
       THEN /\ response' = 200
            /\ UNCHANGED user_progress_db
       ELSE /\ _update_progress(u, p)
            /\ response' = 200
    /\ UNCHANGED <<phase, storage, now, papers_db, deleted, concept_graphs_db,
                   quizzes_db, quiz_results_db, sm2Vars, queryVars>>

\* focus_concepts of a request: none, or one concept of the paper
FocusChoices(p) == {{}} \cup {{c} : c \in GraphIds(p)}

\* the requests of the users US about the papers PS; varied: quiz requests
\* with focus_concepts and with concepts the LLM gives no question for
Requests(US, PS, varied) ==
    \/ \E u \in US, p \in PS, processed \in BOOLEAN :
          \E graph \in GraphChoices(p) \cup {NoGraph} :
            upload_paper(u, p, processed, graph)
    \/ \E u \in US, p \in PS : delete_paper(u, p)
    \/ \E u \in US, p \in PS, n \in 1..MaxQuestions :
          \E focus \in (IF varied THEN FocusChoices(p) ELSE {{}}),
             llm_fail \in (IF varied THEN {{}, GraphIds(p)} ELSE {{}}) :
            generate_quiz(u, p, n, focus, llm_fail)
    \/ \E u \in US, q \in QuizIds, correct \in SUBSET (1..MaxQuestions) :
            submit_quiz(u, q, correct)
    \/ \E u \in US, p \in PS : get_paper_progress(u, p)
    \/ \E u \in US, p \in PS : get_concept_mastery(u, p)

NextProgress == Lifespan \/ Tick \/ Requests({"u1"}, {"p1"}, FALSE)

SpecProgress == Init /\ [][NextProgress]_vars

\* both users on the restored paper p1, no clock: the quizzes, submissions
\* and reads of two history keys
NextSubmit ==
    \/ Lifespan
    \/ \E u \in Users, n \in 1..MaxQuestions : generate_quiz(u, "p1", n, {}, {})
    \/ \E u \in Users, q \in QuizIds, correct \in SUBSET (1..MaxQuestions) :
          submit_quiz(u, q, correct)
    \/ \E u \in Users : get_paper_progress(u, "p1")

InitSubmit == InitWith({RegeneratedStorage}, {FreshUnderstanding})

SpecSubmit == InitSubmit /\ [][NextSubmit]_vars

\* one user on the restored paper p1, no clock: histories of every order
\* over quizzes of one or two questions
NextOrder ==
    \/ Lifespan
    \/ \E n \in 1..MaxQuestions, focus \in FocusChoices("p1") :
          generate_quiz("u1", "p1", n, focus, {})
    \/ \E q \in QuizIds, correct \in SUBSET (1..MaxQuestions) :
          submit_quiz("u1", q, correct)
    \/ get_paper_progress("u1", "p1")

InitOrder == InitWith({RegeneratedStorage, StaleProgressStorage}, {FreshUnderstanding})

SpecOrder == InitOrder /\ [][NextOrder]_vars

\* ------------------------------------------------ spaced repetition (SM-2)
\* ease factors are hundredths: MIN_EASE_FACTOR 1.3, INITIAL_EASE_FACTOR 2.5
MIN_EASE_FACTOR == 130
INITIAL_EASE_FACTOR == 250

Max(a, b) == IF a >= b THEN a ELSE b

\* a mapping whose breakpoint 0.6 is exclusive
ScoreToQualityAbove(score) ==
    IF RatLe(Rat(95, 100), score) THEN 5
    ELSE IF RatLe(Rat(8, 10), score) THEN 4
    ELSE IF ~RatLe(score, Rat(6, 10)) THEN 3
    ELSE IF RatLe(Rat(4, 10), score) THEN 2
    ELSE IF RatLe(Rat(2, 10), score) THEN 1
    ELSE 0

\* SpacedRepetitionService._score_to_quality
ScoreToQuality(score) ==
    IF RatLe(Rat(95, 100), score) THEN 5
    ELSE IF RatLe(Rat(8, 10), score) THEN 4
    ELSE IF RatLe(Rat(6, 10), score) THEN 3
    ELSE IF RatLe(Rat(4, 10), score) THEN 2
    ELSE IF RatLe(Rat(2, 10), score) THEN 1
    ELSE 0

\* an ease factor that is not floored at MIN_EASE_FACTOR
SuccessEaseNoFloor(ease_factor, quality) ==
    ease_factor + (10 - (5 - quality) * (8 + (5 - quality) * 2))

\* ease_factor + (0.1 - (5 - quality) * (0.08 + (5 - quality) * 0.02)), floored
SuccessEase(ease_factor, quality) ==
    Max(ease_factor + (10 - (5 - quality) * (8 + (5 - quality) * 2)),
        MIN_EASE_FACTOR)

\* an ease factor lowered by 0.2 from the current one
FailureEaseCurrent(ease_factor) == Max(ease_factor - 20, MIN_EASE_FACTOR)

\* the ease factor written when quality < 3; the current one is not read
FailureEase(ease_factor) == Max(INITIAL_EASE_FACTOR - 20, MIN_EASE_FACTOR)

\* an interval without the jump from 1 to 6
SuccessIntervalNoJump(interval_days, ease_factor) ==
    (interval_days * ease_factor) \div 100

\* the interval written when quality >= 3 (ease_factor: the updated one)
SuccessInterval(interval_days, ease_factor) ==
    IF interval_days = 1 THEN 6
    ELSE (interval_days * ease_factor) \div 100

\* SpacedRepetitionService._sm2_algorithm at time t
Sm2Algorithm(u, quality, t) ==
    LET ease == IF quality < 3 THEN FailureEase(u.ease_factor)
                ELSE SuccessEase(u.ease_factor, quality)
        interval == IF quality < 3 THEN 1
                    ELSE SuccessInterval(u.interval_days, ease)
    IN  [u EXCEPT !.ease_factor = ease,
                  !.interval_days = interval,
                  !.last_reviewed = t,
                  !.next_review = t + interval,
                  !.times_reviewed = @ + 1]

\* an update that counts an answer as correct from a score of 0.6 on
ApplyScoreSix(u, score, t) ==
    LET tq == u.times_quizzed + 1
        ca == IF RatLe(Rat(6, 10), score) THEN u.correct_answers + 1
              ELSE u.correct_answers
        u1 == Sm2Algorithm([u EXCEPT !.times_quizzed = tq,
                                     !.correct_answers = ca],
                           ScoreToQuality(score), t)
        conf == IF RatLe(One, Rat(ca, tq)) THEN One ELSE Rat(ca, tq)
    IN  [u1 EXCEPT !.confidence_level = conf,
                   !.is_understood =
                       IF RatLe(Rat(8, 10), conf) /\ tq >= 2 THEN TRUE ELSE @]

\* update_concept_understanding from "score = ..." on, at time t
ApplyScore(u, score, t) ==
    LET tq == u.times_quizzed + 1
        ca == IF RatLe(Rat(1, 2), score) THEN u.correct_answers + 1
              ELSE u.correct_answers
        u1 == Sm2Algorithm([u EXCEPT !.times_quizzed = tq,
                                     !.correct_answers = ca],
                           ScoreToQuality(score), t)
        conf == IF RatLe(One, Rat(ca, tq)) THEN One ELSE Rat(ca, tq)
    IN  [u1 EXCEPT !.confidence_level = conf,
                   !.is_understood =
                       IF RatLe(Rat(8, 10), conf) /\ tq >= 2 THEN TRUE ELSE @]

\* an update that takes a missing score for 0.0
UpdateConceptUnderstandingZero(u, concept_scores, concept_id, t) ==
    ApplyScore(u, IF concept_id \in DOMAIN concept_scores
                  THEN concept_scores[concept_id] ELSE Zero, t)

\* SpacedRepetitionService.update_concept_understanding at time t
UpdateConceptUnderstanding(u, concept_scores, concept_id, t) ==
    IF concept_id \notin DOMAIN concept_scores THEN u
    ELSE ApplyScore(u, concept_scores[concept_id], t)

\* the per-concept scores a graded quiz can carry
ScoreChoices == {Zero, Rat(1, 4), Rat(1, 2), Rat(3, 5), Rat(4, 5),
                 Rat(19, 20), One}
ConceptScoreChoices ==
    UNION {[D -> {s}] : D \in SUBSET {"a", "b"}, s \in ScoreChoices}

\* one scheduler call on the stored record; the record is updated in place
\* and returned
update_concept_understanding(concept_scores, concept_id) ==
    /\ updates < MaxUpdates
    /\ updates' = updates + 1
    /\ understanding' =
          UpdateConceptUnderstanding(understanding, concept_scores, concept_id, now)
    /\ returned' = understanding'
    /\ UNCHANGED <<phase, storage, now, storeVars, response, queryVars>>

NextSM2 ==
    \/ Tick
    \/ \E cs \in ConceptScoreChoices, c \in {"a", "b"} :
          update_concept_understanding(cs, c)

InitSM2 == InitWith({EmptyStorage}, {FreshUnderstanding, SeasonedUnderstanding})

SpecSM2 == InitSM2 /\ [][NextSM2]_vars

\* ------------------------------------------- review queries of the service
\* last day of the review calendar
MaxDays == 12
\* effective updates of the records the queries read
MaxReviews == 2
\* largest max_concepts of a prioritize call
MaxConcepts == 3

Min(a, b) == IF a <= b THEN a ELSE b

\* a due test that asks for next_review to lie strictly in the past
IsDueStrict(u, include_new, t) ==
    IF u.last_reviewed = NoTime THEN include_new
    ELSE u.next_review # NoTime /\ u.next_review < t

\* the loop body of get_concepts_due_for_review at time t
IsDue(u, include_new, t) ==
    IF u.last_reviewed = NoTime THEN include_new
    ELSE u.next_review # NoTime /\ u.next_review <= t

\* SpacedRepetitionService.get_concepts_due_for_review
GetConceptsDueForReview(us, include_new, t) ==
    LET due == SelectSeq(us, LAMBDA u : IsDue(u, include_new, t))
    IN  [i \in 1..Len(due) |-> due[i].concept_id]

\* an urgency score that gives a record without next_review no points
UrgencyScoreNoNew(u, t) ==
    LET overdue == IF u.next_review # NoTime
                   THEN IF t - u.next_review > 0 THEN Min(t - u.next_review, 10) ELSE 0
                   ELSE 0
        reviewed == IF ~u.is_understood /\ u.times_reviewed > 0 THEN 3 ELSE 0
        unquizzed == IF u.times_quizzed = 0 THEN 2 ELSE 0
    IN  RatAdd(Rat(overdue + reviewed + unquizzed, 1),
               RatMulInt(Rat(u.confidence_level.den - u.confidence_level.num,
                             u.confidence_level.den), 5))

\* the score of one record in prioritize_concepts_for_review at time t
UrgencyScore(u, t) ==
    LET overdue == IF u.next_review # NoTime
                   THEN IF t - u.next_review > 0 THEN Min(t - u.next_review, 10) ELSE 0
                   ELSE 8
        reviewed == IF ~u.is_understood /\ u.times_reviewed > 0 THEN 3 ELSE 0
        unquizzed == IF u.times_quizzed = 0 THEN 2 ELSE 0
    IN  RatAdd(Rat(overdue + reviewed + unquizzed, 1),
               RatMulInt(Rat(u.confidence_level.den - u.confidence_level.num,
                             u.confidence_level.den), 5))

\* a descending sort that puts a record before the equal-scored ones after it
\* in the input reversed: equal scores come out in reverse input order
RECURSIVE SortByScoreReversed(_)
SortByScoreReversed(s) ==
    IF s = <<>> THEN <<>>
    ELSE LET h == Head(s)
             r == SortByScoreReversed(Tail(s))
             k == Cardinality({i \in 1..Len(r) : RatLe(h.score, r[i].score)})
         IN  SubSeq(r, 1, k) \o <<h>> \o SubSeq(r, k + 1, Len(r))

\* scored_concepts.sort(key=lambda x: x[1], reverse=True): stable
RECURSIVE SortByScore(_)
SortByScore(s) ==
    IF s = <<>> THEN <<>>
    ELSE LET h == Head(s)
             r == SortByScore(Tail(s))
             k == Cardinality({i \in 1..Len(r) : ~RatLe(r[i].score, h.score)})
         IN  SubSeq(r, 1, k) \o <<h>> \o SubSeq(r, k + 1, Len(r))

\* SpacedRepetitionService.prioritize_concepts_for_review
PrioritizeConceptsForReview(us, max_concepts, t) ==
    LET scored == [i \in 1..Len(us) |->
                      [id |-> us[i].concept_id, score |-> UrgencyScore(us[i], t)]]
        sorted == SortByScore(scored)
    IN  [i \in 1..Min(max_concepts, Len(sorted)) |-> sorted[i].id]

\* SpacedRepetitionService.calculate_retention_rate
CalculateRetentionRate(us) ==
    IF us = <<>>
    THEN [overall_retention |-> Zero, concepts_mastered |-> 0,
          concepts_in_progress |-> 0, concepts_struggling |-> 0,
          average_confidence |-> Zero]
    ELSE LET total == Len(us)
             mastered == Cardinality({i \in 1..total : us[i].is_understood})
             struggling == Cardinality({i \in 1..total :
                              /\ us[i].times_quizzed >= 3
                              /\ ~RatLe(Rat(1, 2), us[i].confidence_level)})
         IN  [overall_retention |-> Rat(mastered, total),
              concepts_mastered |-> mastered,
              concepts_in_progress |-> total - mastered - struggling,
              concepts_struggling |-> struggling,
              average_confidence |->
                  RatDivInt(SumRat([i \in 1..total |-> us[i].confidence_level]), total)]

\* a counting that takes a mastery level of exactly 0.8 for not mastered
RetentionStatsStrict(concepts_mastery, total) ==
    LET n == Len(concepts_mastery)
        mastered == Cardinality({i \in 1..n :
                        ~RatLe(concepts_mastery[i].mastery_level, Rat(8, 10))})
        struggling == Cardinality({i \in 1..n :
                          /\ ~RatLe(Rat(1, 2), concepts_mastery[i].mastery_level)
                          /\ concepts_mastery[i].times_quizzed > 0})
    IN  [overall_retention |-> IF total > 0 THEN Rat(mastered, total) ELSE Zero,
         concepts_mastered |-> mastered,
         concepts_in_progress |-> total - mastered - struggling,
         concepts_struggling |-> struggling,
         average_confidence |->
             IF total > 0
             THEN RatDivInt(SumRat([i \in 1..n |-> concepts_mastery[i].mastery_level]),
                            total)
             ELSE Zero]

\* the counting of get_retention_stats over the mastery records of a paper
\* whose graph has total concepts
RetentionStats(concepts_mastery, total) ==
    LET n == Len(concepts_mastery)
        mastered == Cardinality({i \in 1..n :
                        RatLe(Rat(8, 10), concepts_mastery[i].mastery_level)})
        struggling == Cardinality({i \in 1..n :
                          /\ ~RatLe(Rat(1, 2), concepts_mastery[i].mastery_level)
                          /\ concepts_mastery[i].times_quizzed > 0})
    IN  [overall_retention |-> IF total > 0 THEN Rat(mastered, total) ELSE Zero,
         concepts_mastered |-> mastered,
         concepts_in_progress |-> total - mastered - struggling,
         concepts_struggling |-> struggling,
         average_confidence |->
             IF total > 0
             THEN RatDivInt(SumRat([i \in 1..n |-> concepts_mastery[i].mastery_level]),
                            total)
             ELSE Zero]

RECURSIVE TotalQuizzed(_)
TotalQuizzed(us) ==
    IF us = <<>> THEN 0 ELSE Head(us).times_quizzed + TotalQuizzed(Tail(us))

\* the days the review calendar stops at
ReviewDays == {1, 6, MaxDays}

\* the clock moves on to a later day of the calendar
Sleep ==
    /\ \E d \in ReviewDays : d > now /\ now' = d
    /\ UNCHANGED <<phase, storage, storeVars, response, sm2Vars, queryVars>>

\* update_concept_understanding on record i of the list, for a quiz result
\* that scores the record's concept
update_understanding(i, score) ==
    /\ i \in 1..Len(understandings)
    /\ TotalQuizzed(understandings) < MaxReviews
    /\ understandings' =
          [understandings EXCEPT ![i] =
              UpdateConceptUnderstanding(@, (@.concept_id :> score), @.concept_id, now)]
    /\ UNCHANGED <<phase, storage, now, storeVars, response, sm2Vars,
                   study_sessions_db, answer>>

get_concepts_due_for_review(include_new) ==
    /\ answer' = [op |-> "due", include_new |-> include_new,
                  ids |-> GetConceptsDueForReview(understandings, include_new, now)]
    /\ UNCHANGED <<phase, storage, now, storeVars, response, sm2Vars,
                   understandings, study_sessions_db>>

prioritize_concepts_for_review(max_concepts) ==
    /\ answer' = [op |-> "prioritize", max_concepts |-> max_concepts,
                  ids |-> PrioritizeConceptsForReview(understandings, max_concepts, now)]
    /\ UNCHANGED <<phase, storage, now, storeVars, response, sm2Vars,
                   understandings, study_sessions_db>>

calculate_retention_rate ==
    /\ answer' = [op |-> "retention", stats |-> CalculateRetentionRate(understandings)]
    /\ UNCHANGED <<phase, storage, now, storeVars, response, sm2Vars,
                   understandings, study_sessions_db>>

\* the records of three concepts of one paper, none reviewed yet
FreshUnderstandings ==
    [i \in 1..3 |-> [FreshUnderstanding EXCEPT !.concept_id = <<"a", "b", "c">>[i]]]

InitReview ==
    /\ phase = "running"
    /\ storage = EmptyStorage
    /\ now = 0
    /\ papers_db = {}
    /\ deleted = {}
    /\ concept_graphs_db = <<>>
    /\ quizzes_db = <<>>
    /\ quiz_results_db = [k \in Keys |-> <<>>]
    /\ user_progress_db = [k \in Keys |-> NoProgress]
    /\ response = 0
    /\ understanding = FreshUnderstanding
    /\ returned = understanding
    /\ updates = 0
    /\ understandings \in {FreshUnderstandings, <<>>}
    /\ study_sessions_db = [u \in Users |-> <<>>]
    /\ answer = NoAnswer

NextReview ==
    \/ Sleep
    \/ \E i \in 1..3, score \in {Zero, One} : update_understanding(i, score)
    \/ \E include_new \in BOOLEAN : get_concepts_due_for_review(include_new)
    \/ \E max_concepts \in 0..MaxConcepts : prioritize_concepts_for_review(max_concepts)
    \/ calculate_retention_rate

SpecReview == InitReview /\ [][NextReview]_vars

\* ------------------------------------------------- retention statistics
\* GET /progress/{user_id}/{paper_id}/retention, called by current_user
get_retention_stats(current_user, user_id, p) ==
    /\ phase = "running"
    /\ IF current_user # user_id
       THEN /\ response' = 403
            /\ answer' = NoAnswer
            /\ UNCHANGED user_progress_db
       ELSE IF p \notin DOMAIN concept_graphs_db
       THEN /\ response' = 200
            /\ answer' = [op |-> "retention_stats", user_id |-> user_id,
                          paper_id |-> p, stats |-> RetentionStats(<<>>, 0)]
            /\ UNCHANGED user_progress_db
       ELSE /\ _update_progress(user_id, p)
            /\ response' = 200
            /\ answer' = [op |-> "retention_stats", user_id |-> user_id,
                          paper_id |-> p,
                          stats |-> RetentionStats(
                              UpdateProgress(GetOrCreateProgress(user_id, p),
                                             quiz_results_db[KeyOf(user_id, p)],
                                             GraphOf(p), p, now).concepts_mastery,
                              Len(concept_graphs_db[p]))]
    /\ UNCHANGED <<phase, storage, now, papers_db, deleted, concept_graphs_db,
                   quizzes_db, quiz_results_db, sm2Vars, understandings,
                   study_sessions_db>>

\* the five quiz results of (u1, p1) in the files of an earlier run: concept
\* "a" scored 1, 1, 1, 1, 0 and concept "b" scored 1, 0
PractisedResults ==
    <<QuizResult(0, "u1", "p1", [c \in {"a", "b"} |-> One], Rat(100, 1), 2, 2),
      QuizResult(0, "u1", "p1", [c \in {"a", "b"} |-> IF c = "a" THEN One ELSE Zero],
                 Rat(50, 1), 2, 1),
      QuizResult(0, "u1", "p1", [c \in {"a"} |-> One], Rat(100, 1), 1, 1),
      QuizResult(0, "u1", "p1", [c \in {"a"} |-> One], Rat(100, 1), 1, 1),
      QuizResult(0, "u1", "p1", [c \in {"a"} |-> Zero], Zero, 1, 0)>>

PractisedGraph == <<Concept("a", 5), Concept("b", 9), Concept("c", 1)>>

\* files of an earlier run: p1 with three concepts and the five results of
\* u1, the progress as the last submission left it, and a quiz of u1 on "b"
\* and "a"; p2 with an empty graph
PractisedStorage ==
    [papers |-> {"p1", "p2"},
     concept_graphs |-> [p \in {"p1", "p2"} |->
                            IF p = "p1" THEN PractisedGraph ELSE <<>>],
     quizzes |-> [q \in {1} |-> Quiz("p1", "u1", <<"b", "a">>)],
     quiz_results |-> [k \in Keys |->
        IF k = <<"u1", "p1">> THEN PractisedResults ELSE <<>>],
     user_progress |-> [k \in Keys |->
        IF k = <<"u1", "p1">>
        THEN UpdateProgress(UserProgress("u1", "p1", 0), PractisedResults,
                            PractisedGraph, "p1", 0)
        ELSE NoProgress]]

\* user u1 on p1 after five results, submitting the stored quiz again, and
\* every caller of the retention endpoint
NextRetention ==
    \/ Lifespan
    \/ \E correct \in SUBSET (1..2) : submit_quiz("u1", 1, correct)
    \/ \E current_user \in Users, user_id \in Users, p \in Papers :
          get_retention_stats(current_user, user_id, p)

InitRetention == InitWith({PractisedStorage, EmptyStorage}, {FreshUnderstanding})

SpecRetention == InitRetention /\ [][NextRetention]_vars

\* -------------------------------------------------------- study sessions
\* study sessions started after startup
MaxSessions == 3

\* StudySession: the fields the streak and the insights read
StudySession(p, u, t) == [paper_id |-> p, user_id |-> u, start_time |-> t]

RECURSIVE TotalSessions(_)
TotalSessions(US) ==
    IF US = {} THEN 0
    ELSE LET u == CHOOSE x \in US : TRUE
         IN  Len(study_sessions_db[u]) + TotalSessions(US \ {u})

\* POST /progress/session/start
start_study_session(u, p) ==
    /\ phase = "running"
    /\ IF p \notin papers_db
       THEN /\ response' = 404
            /\ UNCHANGED study_sessions_db
       ELSE /\ TotalSessions(Users) < MaxSessions
            /\ study_sessions_db' =
                  [study_sessions_db EXCEPT ![u] = Append(@, StudySession(p, u, now))]
            /\ response' = 200
    /\ UNCHANGED <<phase, storage, now, storeVars, sm2Vars, understandings, answer>>

\* sorted(sessions, key=lambda s: s.start_time, reverse=True)
RECURSIVE SortByStartTime(_)
SortByStartTime(s) ==
    IF s = <<>> THEN <<>>
    ELSE LET h == Head(s)
             r == SortByStartTime(Tail(s))
             k == Cardinality({i \in 1..Len(r) : r[i].start_time > h.start_time})
         IN  SubSeq(r, 1, k) \o <<h>> \o SubSeq(r, k + 1, Len(r))

\* the for loop of _calculate_study_streak over the sorted sessions, entered
\* with the streak counted so far; dates are whole days
RECURSIVE StreakWalk(_, _, _)
StreakWalk(sessions, current_date, streak) ==
    IF sessions = <<>> THEN streak
    ELSE LET session_date == Head(sessions).start_time
         IN  IF session_date = current_date
             THEN StreakWalk(Tail(sessions), current_date,
                             IF streak = 0 THEN 1 ELSE streak)
             ELSE IF session_date = current_date - (streak + 1)
             THEN StreakWalk(Tail(sessions), current_date, streak + 1)
             ELSE streak

\* _calculate_study_streak on the sessions of one user at day t
CalculateStudyStreak(sessions, t) ==
    IF sessions = <<>> THEN 0
    ELSE StreakWalk(SortByStartTime(sessions), t, 0)

\* a call of _calculate_study_streak(user_id)
_calculate_study_streak(u) ==
    /\ phase = "running"
    /\ answer' = [op |-> "streak", user_id |-> u,
                  streak |-> CalculateStudyStreak(study_sessions_db[u], now)]
    /\ UNCHANGED <<phase, storage, now, storeVars, response, sm2Vars,
                   understandings, study_sessions_db>>

\* the users starting sessions on p1 day after day and asking for the streak
NextStreak ==
    \/ Lifespan
    \/ Tick
    \/ \E u \in Users : start_study_session(u, "p1")
    \/ \E u \in Users : _calculate_study_streak(u)

InitStreak == InitWith({RegeneratedStorage, EmptyStorage}, {FreshUnderstanding})

SpecStreak == InitStreak /\ [][NextStreak]_vars

\* ------------------------------------------------- summary and insights
\* the score_percentage of the results of user u over every key of the user
\* (key.startswith(f"{user_id}_")), in the order of the papers
ScorePercentages(results_db, u) ==
    LET of(p) == [i \in 1..Len(results_db[KeyOf(u, p)]) |->
                     results_db[KeyOf(u, p)][i].score_percentage]
    IN  of("p1") \o of("p2")

\* a rule list whose first rule asks for an average above 80
GenerateInsightsAbove(results_db, sessions, u) ==
    LET pcts == ScorePercentages(results_db, u)
        avg_score == RatDivInt(SumRat(pcts), Len(pcts))
        quiz == IF pcts = <<>> THEN <<>>
                ELSE IF ~RatLe(avg_score, Rat(80, 1)) THEN <<"achievement_quiz">>
                ELSE IF ~RatLe(Rat(60, 1), avg_score) THEN <<"suggestion_quiz">>
                ELSE <<>>
        consistency == IF Len(sessions[u]) >= 3 THEN <<"achievement_consistency">>
                       ELSE <<>>
        insights == IF quiz \o consistency = <<>> THEN <<"suggestion_start">>
                    ELSE quiz \o consistency
    IN  SubSeq(insights, 1, Min(5, Len(insights)))

\* _generate_insights: the insights are named by type and rule
GenerateInsights(results_db, sessions, u) ==
    LET pcts == ScorePercentages(results_db, u)
        avg_score == RatDivInt(SumRat(pcts), Len(pcts))
        quiz == IF pcts = <<>> THEN <<>>
                ELSE IF RatLe(Rat(80, 1), avg_score) THEN <<"achievement_quiz">>
                ELSE IF ~RatLe(Rat(60, 1), avg_score) THEN <<"suggestion_quiz">>
                ELSE <<>>
        consistency == IF Len(sessions[u]) >= 3 THEN <<"achievement_consistency">>
                       ELSE <<>>
        insights == IF quiz \o consistency = <<>> THEN <<"suggestion_start">>
                    ELSE quiz \o consistency
    IN  SubSeq(insights, 1, Min(5, Len(insights)))

\* a call of _generate_insights(user_id, papers)
_generate_insights(u) ==
    /\ phase = "running"
    /\ answer' = [op |-> "insights", user_id |-> u,
                  insights |-> GenerateInsights(quiz_results_db, study_sessions_db, u)]
    /\ UNCHANGED <<phase, storage, now, storeVars, response, sm2Vars,
                   understandings, study_sessions_db>>

\* GET /progress/summary: the loop over papers_db refreshes the progress of
\* the user for every paper; the call of _calculate_average_quiz_score, a
\* name bound nowhere, then raises NameError and the request ends as a 500
get_progress_summary(u) ==
    /\ phase = "running"
    /\ user_progress_db' =
          [k \in Keys |->
              IF k[1] = u /\ k[2] \in papers_db
              THEN UpdateProgress(GetOrCreateProgress(u, k[2]), quiz_results_db[k],
                                  GraphOf(k[2]), k[2], now)
              ELSE user_progress_db[k]]
    /\ response' = 500
    /\ answer' = NoAnswer
    /\ UNCHANGED <<phase, storage, now, papers_db, deleted, concept_graphs_db,
                   quizzes_db, quiz_results_db, sm2Vars, understandings,
                   study_sessions_db>>

SummaryGraph(p) == IF p = "p1" THEN <<Concept("a", 5), Concept("b", 9)>>
                   ELSE <<Concept("c", 5)>>

\* the results in the files of an earlier run: u1 scored 100 on p1 and 60
\* (three of five) on p2, u2 scored 60 on p1
SummaryResults(k) ==
    IF k = <<"u1", "p1">>
    THEN <<QuizResult(0, "u1", "p1", [c \in {"a", "b"} |-> One], Rat(100, 1), 2, 2)>>
    ELSE IF k = <<"u1", "p2">>
    THEN <<QuizResult(0, "u1", "p2", [c \in {"c"} |-> Rat(3, 5)], Rat(60, 1), 5, 3)>>
    ELSE IF k = <<"u2", "p1">>
    THEN <<QuizResult(0, "u2", "p1", [c \in {"a"} |-> Rat(3, 5)], Rat(60, 1), 5, 3)>>
    ELSE <<>>

\* files of an earlier run with two papers, the results above, the progress
\* as the submissions left it and a quiz of u1 on p1
SummaryStorage ==
    [papers |-> {"p1", "p2"},
     concept_graphs |-> [p \in {"p1", "p2"} |-> SummaryGraph(p)],
     quizzes |-> [q \in {1} |-> Quiz("p1", "u1", <<"b", "a">>)],
     quiz_results |-> [k \in Keys |-> SummaryResults(k)],
     user_progress |-> [k \in Keys |->
        IF SummaryResults(k) = <<>> THEN NoProgress
        ELSE UpdateProgress(UserProgress(k[1], k[2], 0), SummaryResults(k),
                            SummaryGraph(k[2]), k[2], 0)]]

\* the users of two papers: u1 submits the stored quiz, both start sessions
\* and ask for insights and for the summary
NextSummary ==
    \/ Lifespan
    \/ \E correct \in SUBSET (1..2) : submit_quiz("u1", 1, correct)
    \/ \E u \in Users : start_study_session(u, "p1")
    \/ \E u \in Users : _generate_insights(u)
    \/ \E u \in Users : get_progress_summary(u)

InitSummary == InitWith({SummaryStorage, EmptyStorage}, {FreshUnderstanding})

SpecSummary == InitSummary /\ [][NextSummary]_vars

\* ------------------------------------------------ the other progress reads
\* the records get_concept_progress builds from the mastery records
ConceptProgress(concepts_mastery, u, p) ==
    [i \in 1..Len(concepts_mastery) |->
        LET cm == concepts_mastery[i]
        IN  [user_id |-> u, concept_id |-> cm.concept_id, paper_id |-> p,
             is_understood |-> RatLe(Rat(8, 10), cm.mastery_level),
             confidence_level |-> cm.mastery_level,
             times_reviewed |-> cm.times_reviewed,
             times_quizzed |-> cm.times_quizzed,
             correct_answers |->
                 IF cm.times_quizzed > 0
                 THEN RatInt(RatMulInt(cm.mastery_level, cm.times_quizzed))
                 ELSE 0]]

\* GET /progress/{user_id}/{paper_id}/concepts, called by current_user
get_concept_progress(current_user, user_id, p) ==
    /\ phase = "running"
    /\ IF current_user # user_id
       THEN /\ response' = 403
            /\ answer' = NoAnswer
            /\ UNCHANGED user_progress_db
       ELSE IF p \notin DOMAIN concept_graphs_db
       THEN /\ response' = 404
            /\ answer' = NoAnswer
            /\ UNCHANGED user_progress_db
       ELSE /\ _update_progress(user_id, p)
            /\ response' = 200
            /\ answer' = [op |-> "concept_progress", user_id |-> user_id,
                          paper_id |-> p,
                          records |-> ConceptProgress(
                              UpdateProgress(GetOrCreateProgress(user_id, p),
                                             quiz_results_db[KeyOf(user_id, p)],
                                             GraphOf(p), p, now).concepts_mastery,
                              user_id, p)]
    /\ UNCHANGED <<phase, storage, now, papers_db, deleted, concept_graphs_db,
                   quizzes_db, quiz_results_db, sm2Vars, understandings,
                   study_sessions_db>>

\* GET /progress/{user_id}/{paper_id}/due-for-review, called by current_user:
\* the route answers with no concepts whether or not the graph exists
due_for_review(current_user, user_id, p) ==
    /\ phase = "running"
    /\ IF current_user # user_id
       THEN /\ response' = 403
            /\ answer' = NoAnswer
       ELSE /\ response' = 200
            /\ answer' = [op |-> "due_for_review", user_id |-> user_id,
                          paper_id |-> p, count |-> 0, records |-> <<>>]
    /\ UNCHANGED <<phase, storage, now, storeVars, sm2Vars, understandings,
                   study_sessions_db>>

\* papers uploaded with and without a concept graph, and the five progress
\* reads of every caller
NextQueries ==
    \/ Lifespan
    \/ \E p \in Papers, processed \in BOOLEAN :
          \E graph \in GraphChoices(p) \cup {NoGraph} :
            upload_paper("u1", p, processed, graph)
    \/ \E u \in Users, p \in Papers : get_paper_progress(u, p)
    \/ \E u \in Users, p \in Papers : get_concept_mastery(u, p)
    \/ \E current_user \in Users, p \in Papers :
          get_concept_progress(current_user, "u1", p)
    \/ \E current_user \in Users, p \in Papers :
          due_for_review(current_user, "u1", p)
    \/ \E current_user \in Users, p \in Papers :
          get_retention_stats(current_user, "u1", p)

InitQueries == InitWith({EmptyStorage, RegeneratedStorage}, {FreshUnderstanding})

SpecQueries == InitQueries /\ [][NextQueries]_vars

\* --------------------------------------------- restart on a damaged file
\* the history of (u1, p1) in files whose second record no longer parses
DamagedResults ==
    <<QuizResult(0, "u1", "p1", [c \in {"a", "b"} |-> One], Rat(100, 1), 2, 2),
      CorruptResult,
      QuizResult(0, "u1", "p1", [c \in {"a", "b"} |-> IF c = "a" THEN One ELSE Zero],
                 Rat(50, 1), 2, 1)>>

\* files of an earlier run: p1 with its graph, a quiz of u1, the damaged
\* history and the progress as the last read left it
DamagedStorage ==
    [papers |-> {"p1"},
     concept_graphs |-> [p \in {"p1"} |-> <<Concept("a", 5), Concept("b", 9)>>],
     quizzes |-> [q \in {1} |-> Quiz("p1", "u1", <<"b", "a">>)],
     quiz_results |-> [k \in Keys |->
        IF k = <<"u1", "p1">> THEN DamagedResults ELSE <<>>],
     user_progress |-> [k \in Keys |->
        IF k = <<"u1", "p1">>
        THEN UpdateProgress(UserProgress("u1", "p1", 0), DamagedResults,
                            <<Concept("a", 5), Concept("b", 9)>>, "p1", 0)
        ELSE NoProgress]]

\* a restart on damaged or sound files, then submissions of the stored quiz
\* and progress reads of both users
NextRestart ==
    \/ Lifespan
    \/ Tick
    \/ \E correct \in SUBSET (1..2) : submit_quiz("u1", 1, correct)
    \/ \E u \in Users : get_paper_progress(u, "p1")

InitRestart == InitWith({DamagedStorage, RegeneratedStorage}, {FreshUnderstanding})

SpecRestart == InitRestart /\ [][NextRestart]_vars

\* ------------------------------------------------------ score to quality
\* the scores of the quality calls: every two-hundredth of [0,1]
QualityScores == {Rat(k, 200) : k \in 0..200}

\* a call of _score_to_quality(score)
_score_to_quality(score) ==
    /\ answer' = [op |-> "quality", score |-> score,
                  quality |-> ScoreToQuality(score)]
    /\ UNCHANGED <<phase, storage, now, storeVars, response, sm2Vars,
                   understandings, study_sessions_db>>

NextQuality == \E score \in QualityScores : _score_to_quality(score)

InitQuality == InitWith({EmptyStorage}, {FreshUnderstanding})

SpecQuality == InitQuality /\ [][NextQuality]_vars

\* ------------------------------------------- retention of a single record
\* the fresh record after two updates with score 1.0 on day 0
PractisedUnderstanding ==
    UpdateConceptUnderstanding(
        UpdateConceptUnderstanding(FreshUnderstanding, ("a" :> One), "a", 0),
        ("a" :> One), "a", 0)

\* calculate_retention_rate on the list that holds the stored record alone
retention_of_record ==
    /\ answer' = [op |-> "retention", stats |-> CalculateRetentionRate(<<understanding>>)]
    /\ UNCHANGED <<phase, storage, now, storeVars, response, sm2Vars,
                   understandings, study_sessions_db>>

\* updates of one record, fresh or practised, and its retention statistics
NextRate ==
    \/ \E cs \in ConceptScoreChoices, c \in {"a", "b"} :
          update_concept_understanding(cs, c)
    \/ retention_of_record

InitRate == InitWith({EmptyStorage}, {FreshUnderstanding, PractisedUnderstanding})

SpecRate == InitRate /\ [][NextRate]_vars

\* --------------------------------------------- sessions over several days
\* last day of the session calendar
MaxStreakDays == 2

\* midnight (UTC) passes
NextDay ==
    /\ now < MaxStreakDays
    /\ now' = now + 1
    /\ UNCHANGED <<phase, storage, storeVars, response, sm2Vars, queryVars>>

\* user u1 starting sessions on p1 over the days and asking for the streak
NextDays ==
    \/ Lifespan
    \/ NextDay
    \/ start_study_session("u1", "p1")
    \/ _calculate_study_streak("u1")

InitDays == InitWith({RegeneratedStorage}, {FreshUnderstanding})

SpecDays == InitDays /\ [][NextDays]_vars

\* ======================================================== checked properties
K1 == <<"u1", "p1">>
K2 == <<"u2", "p1">>

\* a request that runs _update_progress for (u, p) and answers 200
ReadStep(u, p) ==
    /\ response' = 200
    /\ now' = now
    /\ p \in papers_db
    /\ quiz_results_db' = quiz_results_db
    /\ quizzes_db' = quizzes_db
    /\ papers_db' = papers_db
    /\ \/ get_paper_progress(u, p)
       \/ get_concept_mastery(u, p) /\ p \in DOMAIN concept_graphs_db

\* the concept_scores entries of concept c in a history
EntryIndexes(history, c) ==
    {i \in 1..Len(history) :
        history[i].parseable /\ c \in DOMAIN history[i].concept_scores}

RECURSIVE SumEntries(_, _, _)
SumEntries(history, c, idx) ==
    IF idx = {} THEN Zero
    ELSE LET i == CHOOSE x \in idx : TRUE
         IN  RatAdd(history[i].concept_scores[c], SumEntries(history, c, idx \ {i}))

\* x = y / n for rationals x, y and n > 0
IsQuotient(x, y, n) == x.num * y.den * n = y.num * x.den

MasteryOf(k) == user_progress_db[k].concepts_mastery

\* every concept of the graph with at least one entry in the history has a
\* record holding the mean and the number of its entries
MeanMasteryHolds(history, graph, concepts_mastery) ==
    \A i \in 1..Len(graph) :
        LET idx == EntryIndexes(history, graph[i].id)
        IN  idx # {} =>
              \E j \in 1..Len(concepts_mastery) :
                LET rec == concepts_mastery[j]
                IN  /\ rec.concept_id = graph[i].id
                    /\ IsQuotient(rec.mastery_level,
                                  SumEntries(history, graph[i].id, idx),
                                  Cardinality(idx))
                    /\ rec.times_quizzed = Cardinality(idx)
                    /\ rec.times_reviewed = rec.times_quizzed

\* C1: a read of (u, p), for a paper with a concept graph, gives every
\* concept of the graph that has at least one concept_scores entry in the
\* stored history a mastery_level equal to the arithmetic mean of all those
\* entries, times_quizzed equal to their number and times_reviewed equal to
\* times_quizzed.
C1_MeanMastery ==
    [][\A u \in Users, p \in Papers :
          ReadStep(u, p) /\ p \in DOMAIN concept_graphs_db =>
            MeanMasteryHolds(quiz_results_db'[KeyOf(u, p)], concept_graphs_db'[p],
                             user_progress_db'[KeyOf(u, p)].concepts_mastery)]_vars

\* scores [1.0, 0.0, 1.0] of concept "a" aggregated to 2/3, quizzed 3 times
C1_Witness ==
    /\ Len(quiz_results_db[K1]) = 3
    /\ \A i \in 1..3 : "a" \in DOMAIN quiz_results_db[K1][i].concept_scores
    /\ quiz_results_db[K1][1].concept_scores["a"] = One
    /\ quiz_results_db[K1][2].concept_scores["a"] = Zero
    /\ quiz_results_db[K1][3].concept_scores["a"] = One
    /\ user_progress_db[K1] # NoProgress
    /\ \E j \in 1..Len(MasteryOf(K1)) :
          /\ MasteryOf(K1)[j].concept_id = "a"
          /\ MasteryOf(K1)[j].mastery_level = Rat(2, 3)
          /\ MasteryOf(K1)[j].times_quizzed = 3

\* the history without the concept_scores entries of ids outside the graph
StripForeign(history, graph) ==
    LET ids == {graph[i].id : i \in 1..Len(graph)}
    IN  [i \in 1..Len(history) |->
           IF history[i].parseable
           THEN [history[i] EXCEPT !.concept_scores =
                   [c \in DOMAIN history[i].concept_scores \cap ids |->
                       history[i].concept_scores[c]]]
           ELSE history[i]]

\* one record per concept of the graph, in graph order; a concept without
\* entries has mastery 0.0 and times_quizzed 0; the levels and counts are
\* those of the history stripped of foreign concept ids
GraphShapedHolds(history, graph, concepts_mastery, anyProgress, p, t) ==
    /\ Len(concepts_mastery) = Len(graph)
    /\ \A i \in 1..Len(graph) :
          /\ concepts_mastery[i].concept_id = graph[i].id
          /\ EntryIndexes(history, graph[i].id) = {} =>
                /\ concepts_mastery[i].mastery_level = Zero
                /\ concepts_mastery[i].times_quizzed = 0
    /\ LET stripped == UpdateProgress(anyProgress, StripForeign(history, graph),
                                      graph, p, t).concepts_mastery
       IN  /\ Len(stripped) = Len(concepts_mastery)
           /\ \A i \in 1..Len(stripped) :
                 /\ stripped[i].mastery_level = concepts_mastery[i].mastery_level
                 /\ stripped[i].times_quizzed = concepts_mastery[i].times_quizzed

\* C2: for every history, the concepts_mastery list a read produces for a
\* paper with a concept graph holds exactly one record per concept of the
\* graph, in graph order, and none for any other id; a never-tested concept
\* appears with mastery 0.0 and times_quizzed 0, and concept_scores entries
\* of ids outside the graph change no record's mastery_level or times_quizzed.
C2_OneRecordPerConcept ==
    [][\A u \in Users, p \in Papers :
          ReadStep(u, p) /\ p \in DOMAIN concept_graphs_db =>
            GraphShapedHolds(quiz_results_db'[KeyOf(u, p)], concept_graphs_db'[p],
                             user_progress_db'[KeyOf(u, p)].concepts_mastery,
                             user_progress_db'[KeyOf(u, p)], p, now)]_vars

\* the stored result scores "a" and the foreign "c"; the read lists "a"
\* (quizzed once) and the never-tested "b", and nothing for "c"
C2_Witness ==
    /\ storage = RegeneratedStorage
    /\ Len(quiz_results_db[K1]) = 1
    /\ "c" \in DOMAIN quiz_results_db[K1][1].concept_scores
    /\ K1[2] \in DOMAIN concept_graphs_db
    /\ user_progress_db[K1] # NoProgress
    /\ Len(MasteryOf(K1)) = 2
    /\ MasteryOf(K1)[1].concept_id = "a" /\ MasteryOf(K1)[1].times_quizzed = 1
    /\ MasteryOf(K1)[2].concept_id = "b" /\ MasteryOf(K1)[2].times_quizzed = 0
    /\ MasteryOf(K1)[2].mastery_level = Zero

\* C3: cold start: a read of a pair whose quiz-result history is empty, for
\* a paper with a concept graph of n concepts, yields n ConceptMastery
\* records, one per concept, each with mastery_level 0.0, times_quizzed 0
\* and times_reviewed 0.
ColdStartHolds(graph, concepts_mastery) ==
    /\ Len(concepts_mastery) = Len(graph)
    /\ \A i \in 1..Len(graph) :
          /\ concepts_mastery[i].concept_id = graph[i].id
          /\ concepts_mastery[i].mastery_level = Zero
          /\ concepts_mastery[i].times_quizzed = 0
          /\ concepts_mastery[i].times_reviewed = 0

C3_ColdStart ==
    [][\A u \in Users, p \in Papers :
          /\ ReadStep(u, p)
          /\ p \in DOMAIN concept_graphs_db
          /\ quiz_results_db[KeyOf(u, p)] = <<>>
          => ColdStartHolds(concept_graphs_db'[p],
                            user_progress_db'[KeyOf(u, p)].concepts_mastery)]_vars

\* two concepts, no quiz result, a read done: two zero records
C3_Witness ==
    /\ quiz_results_db[K1] = <<>>
    /\ K1[2] \in DOMAIN concept_graphs_db
    /\ Len(concept_graphs_db[K1[2]]) = 2
    /\ user_progress_db[K1] # NoProgress
    /\ Len(MasteryOf(K1)) = 2
    /\ \A i \in 1..2 : /\ MasteryOf(K1)[i].mastery_level = Zero
                       /\ MasteryOf(K1)[i].times_quizzed = 0
                       /\ MasteryOf(K1)[i].times_reviewed = 0

\* round(mean(mastery_level over the records) * 100), 0 without records
RoundedCompletion(concepts_mastery) ==
    IF concepts_mastery = <<>> THEN 0
    ELSE LET levels == [i \in 1..Len(concepts_mastery) |->
                           concepts_mastery[i].mastery_level]
         IN  RatRound(RatMulInt(RatDivInt(SumRat(levels), Len(levels)), 100))

\* C4: after every aggregation pass completion_percentage equals the mean
\* mastery_level over all concept records times 100, rounded to the nearest
\* integer, and 0 when there are no concept records.
C4_CompletionRounded ==
    [][\A u \in Users, p \in Papers :
          ReadStep(u, p) =>
            user_progress_db'[KeyOf(u, p)].completion_percentage =
              RoundedCompletion(user_progress_db'[KeyOf(u, p)].concepts_mastery)]_vars

\* masteries 1/3 and 1 (mean 66.67 %) read back as 66
C4_Truncated ==
    /\ user_progress_db[K1] # NoProgress
    /\ Len(MasteryOf(K1)) = 2
    /\ MasteryOf(K1)[1].mastery_level = Rat(1, 3)
    /\ MasteryOf(K1)[2].mastery_level = One
    /\ user_progress_db[K1].completion_percentage = 66

\* the stored progress of (u, p) is what an aggregation pass at some time up
\* to now leaves for the present history and graph
AggregatedBefore(progress, history, graph, p, t_now) ==
    /\ progress # NoProgress
    /\ \E t \in 0..t_now :
          progress = UpdateProgress(progress, history, graph, p, t)

\* C5: idempotence: an aggregation pass that follows an earlier pass over the
\* same history and the same concept graph, at any later time, leaves
\* identical ConceptMastery records (first_encountered included) and
\* identical UserProgress aggregates.
C5_Idempotent ==
    [][\A u \in Users, p \in Papers :
          /\ ReadStep(u, p)
          /\ AggregatedBefore(user_progress_db[KeyOf(u, p)],
                              quiz_results_db[KeyOf(u, p)], GraphOf(p), p, now)
          => user_progress_db'[KeyOf(u, p)] = user_progress_db[KeyOf(u, p)]]_vars

\* the aggregates a pass computes from a history: per concept record the
\* level and count, and the three UserProgress aggregates
Aggregates(progress) ==
    [levels |-> [i \in 1..Len(progress.concepts_mastery) |->
                    <<progress.concepts_mastery[i].concept_id,
                      progress.concepts_mastery[i].mastery_level,
                      progress.concepts_mastery[i].times_quizzed>>],
     completion_percentage |-> progress.completion_percentage,
     quiz_attempts |-> progress.quiz_attempts,
     average_quiz_score |-> progress.average_quiz_score]

\* the pass over every reordering of the history gives the aggregates of
\* the progress that was read
OrderIndependentHolds(read, before, history, graph, p, t) ==
    \A perm \in Permutations(1..Len(history)) :
        Aggregates(UpdateProgress(before, [i \in 1..Len(history) |-> history[perm[i]]],
                                  graph, p, t)) = Aggregates(read)

AppendedOne(before, after, k, q, u) ==
    /\ Len(after[k]) = Len(before[k]) + 1
    /\ SubSeq(after[k], 1, Len(before[k])) = before[k]
    /\ after[k][Len(after[k])].quiz_id = q
    /\ after[k][Len(after[k])].user_id = u
    /\ \A other \in Keys \ {k} : after[other] = before[other]

\* a step that can be a submission: everything but the histories and the
\* response is left alone
SubmitShaped ==
    /\ phase = "running"
    /\ now' = now
    /\ quizzes_db' = quizzes_db
    /\ user_progress_db' = user_progress_db
    /\ papers_db' = papers_db

\* C7: a successful submit_quiz appends exactly one QuizResult at the end of
\* the history keyed by (submitting user, the quiz's paper) and leaves the
\* earlier entries and every other key's history unchanged; a rejected call
\* (unknown quiz, quiz of another user) changes no history; no other request
\* changes a history, whatever the interleaving of the users' requests; and
\* a read over a non-empty history reports its length as quiz_attempts and
\* the mean of its entries as mastery.
C7_AtomicAppend ==
    [][/\ SubmitShaped =>
             \A u \in Users, q \in QuizIds, correct \in SUBSET (1..MaxQuestions) :
               submit_quiz(u, q, correct) =>
                 IF q \in DOMAIN quizzes_db /\ quizzes_db[q].user_id = u
                 THEN AppendedOne(quiz_results_db, quiz_results_db',
                                  <<u, quizzes_db[q].paper_id>>, q, u)
                 ELSE quiz_results_db' = quiz_results_db
       /\ phase = "running" /\ quiz_results_db' # quiz_results_db =>
             \E u \in Users, q \in DOMAIN quizzes_db :
                /\ quizzes_db[q].user_id = u
                /\ AppendedOne(quiz_results_db, quiz_results_db',
                               <<u, quizzes_db[q].paper_id>>, q, u)
       /\ \A u \in Users, p \in Papers :
             ReadStep(u, p) /\ quiz_results_db[<<u, p>>] # <<>>
                            /\ p \in DOMAIN concept_graphs_db =>
               /\ user_progress_db'[<<u, p>>].quiz_attempts =
                     Len(quiz_results_db[<<u, p>>])
               /\ MeanMasteryHolds(quiz_results_db[<<u, p>>], concept_graphs_db[p],
                                   user_progress_db'[<<u, p>>].concepts_mastery)]_vars

\* two submissions of u2 and a read: two results under (u2, p1), the history
\* of (u1, p1) still the restored one
C7_Witness ==
    /\ storage = RegeneratedStorage
    /\ phase = "running"
    /\ Len(quiz_results_db[K2]) = 2
    /\ \A i \in 1..2 : quiz_results_db[K2][i].user_id = "u2"
    /\ quiz_results_db[K1] = RegeneratedStorage.quiz_results[K1]
    /\ user_progress_db[K2] # NoProgress
    /\ user_progress_db[K2].quiz_attempts = 2

\* the scheduler call of this step scored concept c with quality q
ScoredStep(cs, c) == update_concept_understanding(cs, c) /\ c \in DOMAIN cs

\* the ease change of a successful recall, in hundredths:
\* 0.1 - (5 - quality) * (0.08 + (5 - quality) * 0.02)
EaseDelta(quality) ==
    CASE quality = 5 -> 10
      [] quality = 4 -> 0
      [] quality = 3 -> 0 - 14

SuccessStepHolds(old, new, quality) ==
    LET raised == old.ease_factor + EaseDelta(quality)
        ease == IF raised < 130 THEN 130 ELSE raised
    IN  /\ new.ease_factor = ease
        /\ old.interval_days = 1 => new.interval_days = 6
        /\ old.interval_days # 1 =>
              /\ new.interval_days * 100 <= old.interval_days * ease
              /\ old.interval_days * ease < (new.interval_days + 1) * 100

\* C8: SM-2 success step: an update of quality >= 3 sets ease_factor to
\* max(old ease_factor + (0.1 - (5-q)*(0.08 + (5-q)*0.02)), 1.3) and then
\* interval_days to 6 when the previous interval was 1 and otherwise to
\* floor(previous interval * new ease_factor).
C8_SuccessStep ==
    [][\A cs \in ConceptScoreChoices, c \in {"a", "b"} :
          ScoredStep(cs, c) /\ ScoreToQuality(cs[c]) >= 3 =>
            SuccessStepHolds(understanding, understanding', ScoreToQuality(cs[c]))]_vars

\* interval 1, ease 2.5, two quality-5 updates: interval 6, then
\* floor(6 * 2.7) = 16
C8_Witness ==
    /\ understanding.times_quizzed = 2
    /\ understanding.times_reviewed = 2
    /\ understanding.ease_factor = 270
    /\ understanding.interval_days = 16

\* C9: SM-2 failure reset: an update of quality < 3 sets interval_days to 1
\* and ease_factor to 2.3, whatever both were before.
C9_FailureReset ==
    [][\A cs \in ConceptScoreChoices, c \in {"a", "b"} :
          ScoredStep(cs, c) /\ ScoreToQuality(cs[c]) < 3 =>
            /\ understanding'.interval_days = 1
            /\ understanding'.ease_factor = 230]_vars

\* the record of interval 322 and ease 1.38 after one failed recall
C9_Witness ==
    /\ understanding.times_quizzed = 9
    /\ understanding.correct_answers = 8
    /\ understanding.interval_days = 1
    /\ understanding.ease_factor = 230

\* C10: update_concept_understanding with a concept_id that is no key of
\* concept_scores is a no-op: the record it returns and the stored record
\* equal the input record in every field.
C10_NoOpWithoutScore ==
    [][\A cs \in ConceptScoreChoices, c \in {"a", "b"} :
          update_concept_understanding(cs, c) /\ c \notin DOMAIN cs =>
            /\ returned' = understanding
            /\ understanding' = understanding]_vars

\* calls were made and the seasoned record is as it was before them
C10_Witness ==
    /\ updates = 2
    /\ understanding = SeasonedUnderstanding
    /\ returned = SeasonedUnderstanding

\* C11: after every effective update_concept_understanding call
\* is_understood is true if and only if confidence_level >= 0.8 and
\* times_quizzed >= 2; it flips back to false when later poor results
\* bring the confidence below 0.8.
C11_UnderstoodIff ==
    [][\A cs \in ConceptScoreChoices, c \in {"a", "b"} :
          ScoredStep(cs, c) =>
            (understanding'.is_understood <=>
                /\ RatLe(Rat(8, 10), understanding'.confidence_level)
                /\ understanding'.times_quizzed >= 2)]_vars

\* ---------------------------------------------------------------- C12
\* the record of the list us that carries concept id
RecordOf(us, id) == us[CHOOSE i \in 1..Len(us) : us[i].concept_id = id]

\* the urgency of a record at time t as a single fraction: the whole points
\* (overdue days capped at 10 or the flat 8 of a record never scheduled, 3 for
\* a reviewed record not understood, 2 for a record never quizzed) over the
\* denominator of the confidence, plus five times the missing confidence
ClaimedUrgency(u, t) ==
    LET c == u.confidence_level
        whole == (IF u.next_review = NoTime THEN 8
                  ELSE IF u.next_review < t
                       THEN (IF t - u.next_review < 10 THEN t - u.next_review ELSE 10)
                       ELSE 0)
                 + (IF u.is_understood \/ u.times_reviewed = 0 THEN 0 ELSE 3)
                 + (IF u.times_quizzed = 0 THEN 2 ELSE 0)
    IN  Rat(whole * c.den + 5 * (c.den - c.num), c.den)

NonIncreasingUrgency(ids, us, t) ==
    \A i \in 1..Len(ids), j \in 1..Len(ids) :
        i < j => RatLe(ClaimedUrgency(RecordOf(us, ids[j]), t),
                       ClaimedUrgency(RecordOf(us, ids[i]), t))

\* C12: prioritize_concepts_for_review returns the concept ids in
\* non-increasing order of the urgency score: min(days overdue, 10) when
\* next_review lies in the past or a flat 8 when there is no next_review, plus
\* (1 - confidence_level) * 5, plus 3 when not understood and reviewed at
\* least once, plus 2 when never quizzed.
C12_UrgencyOrder ==
    [][\A m \in 0..MaxConcepts :
          prioritize_concepts_for_review(m) =>
              NonIncreasingUrgency(answer'.ids, understandings, now)]_vars

\* a full ranking of a never-scheduled record, an overdue record and a record
\* not yet due that differs from the input order
C12_Witness ==
    /\ answer.op = "prioritize"
    /\ answer.ids = PrioritizeConceptsForReview(understandings, answer.max_concepts, now)
    /\ Len(answer.ids) = 3
    /\ answer.ids[1] # "a"
    /\ \E i \in 1..3 : understandings[i].next_review = NoTime
    /\ \E i \in 1..3 : /\ understandings[i].next_review # NoTime
                       /\ understandings[i].next_review < now
    /\ \E i \in 1..3 : understandings[i].next_review >= now

\* ---------------------------------------------------------------- C13
PositionOf(us, id) == CHOOSE i \in 1..Len(us) : us[i].concept_id = id

\* record x of us ranks before record y: a higher score, or the same score
\* and an earlier place in the input
RanksBefore(us, x, y, t) ==
    \/ ~RatLe(UrgencyScore(us[x], t), UrgencyScore(us[y], t))
    \/ /\ UrgencyScore(us[x], t) = UrgencyScore(us[y], t)
       /\ x < y

StableTopPrefix(ids, us, max_concepts, t) ==
    LET chosen == {PositionOf(us, ids[i]) : i \in 1..Len(ids)}
    IN  /\ Len(ids) = (IF max_concepts <= Len(us) THEN max_concepts ELSE Len(us))
        /\ \A i \in 1..Len(ids) : \E k \in 1..Len(us) : us[k].concept_id = ids[i]
        /\ \A i \in 1..Len(ids), j \in 1..Len(ids) :
              i < j => RanksBefore(us, PositionOf(us, ids[i]), PositionOf(us, ids[j]), t)
        /\ \A x \in chosen, y \in (1..Len(us)) \ chosen : RanksBefore(us, x, y, t)

\* C13: prioritize_concepts_for_review is a stable, truncating ranking: the
\* output holds min(max_concepts, number of records) ids, each the concept_id
\* of an input record, records of equal score keep their input order, and the
\* output is the top prefix of the stable descending sort.
C13_StableTruncating ==
    [][\A m \in 0..MaxConcepts :
          prioritize_concepts_for_review(m) =>
              StableTopPrefix(answer'.ids, understandings, m, now)]_vars

\* a ranking cut short of the list in which two records of equal score appear
\* and a third record of that score is left out
C13_Witness ==
    /\ answer.op = "prioritize"
    /\ answer.ids = PrioritizeConceptsForReview(understandings, answer.max_concepts, now)
    /\ Len(answer.ids) = 2
    /\ Len(understandings) = 3
    /\ \E r \in 1..3 : understandings[r].times_quizzed > 0
    /\ \E x \in 1..3, y \in 1..3 :
          /\ x < y
          /\ UrgencyScore(understandings[x], now) = UrgencyScore(understandings[y], now)
          /\ understandings[x].concept_id = answer.ids[1]
          /\ understandings[y].concept_id = answer.ids[2]

\* ---------------------------------------------------------------- C14
Reviewed(u) == u.last_reviewed # NoTime

ScheduledByUpdate(before, after, t) ==
    /\ after.last_reviewed = t
    /\ after.next_review = t + after.interval_days
    /\ after.times_reviewed = before.times_reviewed + 1

DueAsClaimed(ids, us, t) ==
    \A i \in 1..Len(us) :
        (\E k \in 1..Len(ids) : ids[k] = us[i].concept_id)
          <=> (Reviewed(us[i]) => t >= us[i].last_reviewed + us[i].interval_days)

\* C14: an effective update at time t sets last_reviewed to t, next_review to
\* t plus the resulting interval_days and adds one to times_reviewed; the due
\* query with include_new = True returns every never-reviewed concept and a
\* reviewed concept exactly when now >= next_review, so a concept reviewed at
\* t is not due before t + interval_days and is due from then on.
C14_DueFromNextReview ==
    [][/\ \A i \in 1..3, score \in {Zero, One} :
            update_understanding(i, score) =>
                ScheduledByUpdate(understandings[i], understandings'[i], now)
       /\ get_concepts_due_for_review(TRUE) =>
              DueAsClaimed(answer'.ids, understandings, now)]_vars

\* a due query answered on the very day a reviewed concept falls due, while
\* another reviewed concept is not yet due and a third was never reviewed
C14_Witness ==
    /\ answer.op = "due"
    /\ answer.include_new
    /\ Len(understandings) = 3
    /\ answer.ids = GetConceptsDueForReview(understandings, TRUE, now)
    /\ \E i \in 1..3 : /\ Reviewed(understandings[i])
                       /\ understandings[i].next_review = now
                       /\ \E k \in 1..Len(answer.ids) :
                             answer.ids[k] = understandings[i].concept_id
    /\ \E i \in 1..3 : /\ Reviewed(understandings[i])
                       /\ \A k \in 1..Len(answer.ids) :
                             answer.ids[k] # understandings[i].concept_id
    /\ \E i \in 1..3 : ~Reviewed(understandings[i])

\* ---------------------------------------------------------------- C16
\* the records of the service seen as mastery records of the same level
AsMastery(us) ==
    [i \in 1..Len(us) |-> [mastery_level |-> us[i].confidence_level,
                           times_quizzed |-> us[i].times_quizzed]]

SameClasses(x, y) ==
    /\ x.concepts_mastered = y.concepts_mastered
    /\ x.concepts_struggling = y.concepts_struggling
    /\ x.concepts_in_progress = y.concepts_in_progress

\* C16: for the same concepts with the same level and the same times_quizzed,
\* calculate_retention_rate reports the same concepts_mastered,
\* concepts_struggling and concepts_in_progress as get_retention_stats.
C16_SameClassification ==
    [][calculate_retention_rate =>
          SameClasses(answer'.stats,
                      RetentionStats(AsMastery(understandings), Len(understandings)))]_vars

\* ---------------------------------------------------------------- C15
\* the mastery record of concept id in the list cm
MasteryRecordOf(cm, id) == cm[CHOOSE i \in 1..Len(cm) : cm[i].concept_id = id]

ClaimedMastered(r) == 10 * r.mastery_level.num >= 8 * r.mastery_level.den
ClaimedStruggling(r) ==
    2 * r.mastery_level.num < r.mastery_level.den /\ r.times_quizzed > 0

\* the counts of stats are those of the three classes over the concepts ids
\* whose mastery records are cm
ClassifiedByThresholds(stats, ids, cm) ==
    LET M == {c \in ids : ClaimedMastered(MasteryRecordOf(cm, c))}
        S == {c \in ids : ClaimedStruggling(MasteryRecordOf(cm, c))}
        P == {c \in ids : /\ ~ClaimedMastered(MasteryRecordOf(cm, c))
                          /\ ~ClaimedStruggling(MasteryRecordOf(cm, c))}
    IN  /\ M \cap S = {}
        /\ stats.concepts_mastered = Cardinality(M)
        /\ stats.concepts_struggling = Cardinality(S)
        /\ stats.concepts_in_progress = Cardinality(P)
        /\ stats.concepts_mastered >= 0
        /\ stats.concepts_struggling >= 0
        /\ stats.concepts_in_progress >= 0
        /\ stats.concepts_mastered + stats.concepts_struggling
              + stats.concepts_in_progress = Cardinality(ids)
        /\ IF ids = {} THEN stats.overall_retention = Zero
           ELSE /\ stats.overall_retention.num * Cardinality(ids)
                      = Cardinality(M) * stats.overall_retention.den
                /\ stats.overall_retention.den > 0

PaperConceptIds(graphs, p) ==
    IF p \in DOMAIN graphs THEN {graphs[p][i].id : i \in 1..Len(graphs[p])} ELSE {}

\* C15: get_retention_stats puts each concept of the paper into exactly one
\* class: mastered iff mastery_level >= 0.8, struggling iff mastery_level <
\* 0.5 and times_quizzed > 0, in progress otherwise; the three counts are
\* non-negative, sum to the number of concepts, and overall_retention is
\* mastered / total (0.0 when total = 0).
C15_RetentionClasses ==
    [][\A user_id \in Users, p \in Papers :
          get_retention_stats(user_id, user_id, p) =>
              ClassifiedByThresholds(
                  answer'.stats, PaperConceptIds(concept_graphs_db, p),
                  IF p \in DOMAIN concept_graphs_db
                  THEN user_progress_db'[<<user_id, p>>].concepts_mastery
                  ELSE <<>>)]_vars

\* statistics of p1 for u1 while "a" stands at exactly 0.8, "b" at exactly
\* 0.5 and "c" was never quizzed: one mastered, two in progress
C15_Witness ==
    /\ answer.op = "retention_stats"
    /\ answer.user_id = "u1"
    /\ answer.paper_id = "p1"
    /\ user_progress_db[<<"u1", "p1">>] # NoProgress
    /\ LET cm == user_progress_db[<<"u1", "p1">>].concepts_mastery
       IN  /\ Len(cm) = 3
           /\ \E i \in 1..3 : cm[i].mastery_level = Rat(4, 5)
           /\ \E i \in 1..3 : cm[i].mastery_level = Rat(1, 2)
           /\ \E i \in 1..3 : cm[i].times_quizzed = 0
    /\ answer.stats.concepts_mastered = 1
    /\ answer.stats.concepts_in_progress = 2
    /\ answer.stats.concepts_struggling = 0

\* ---------------------------------------------------------------- C17
SessionDays(u) ==
    {study_sessions_db[u][i].start_time : i \in 1..Len(study_sessions_db[u])}

\* the user has a session on each of the k days ending today
StudiedLastDays(u, k) == \A d \in 0..(k - 1) : (now - d) \in SessionDays(u)

\* C17: sessions on each of the k consecutive calendar days ending today (and
\* none on the day before them) give streak k; today and yesterday give 2.
C17_ConsecutiveDays ==
    [][\A u \in Users, k \in 1..(MaxTime + 1) :
          /\ _calculate_study_streak(u)
          /\ StudiedLastDays(u, k)
          /\ (now - k) \notin SessionDays(u)
          => answer'.streak = k]_vars

\* ---------------------------------------------------------------- C18
\* C18: whenever the user has no study session dated today, the streak is 0,
\* whether the most recent session is yesterday or two or more days ago.
C18_MustIncludeToday ==
    [][\A u \in Users :
          _calculate_study_streak(u) /\ now \notin SessionDays(u)
          => answer'.streak = 0]_vars

\* ---------------------------------------------------------------- C19
Has(seq, x) == \E i \in 1..Len(seq) : seq[i] = x

\* all quiz results of user u, whatever the paper
ResultsOfUser(u) ==
    UNION {{<<p, i>> : i \in 1..Len(quiz_results_db[<<u, p>>])} : p \in Papers}

RECURSIVE SumPercentages(_, _)
SumPercentages(u, S) ==
    IF S = {} THEN Zero
    ELSE LET e == CHOOSE x \in S : TRUE
         IN  RatAdd(quiz_results_db[<<u, e[1]>>][e[2]].score_percentage,
                    SumPercentages(u, S \ {e}))

\* the average score of u is at least n: sum >= n * count
AverageAtLeast(u, n) ==
    RatLe(Rat(n * Cardinality(ResultsOfUser(u)), 1),
          SumPercentages(u, ResultsOfUser(u)))

RuleOrder == <<"achievement_quiz", "suggestion_quiz", "achievement_consistency",
               "suggestion_start">>

InsightsAsRuled(ins, u) ==
    LET scored == ResultsOfUser(u) # {}
    IN  /\ Len(ins) >= 1
        /\ Len(ins) <= 5
        /\ Has(ins, "achievement_quiz") <=> (scored /\ AverageAtLeast(u, 80))
        /\ Has(ins, "suggestion_quiz") <=> (scored /\ ~AverageAtLeast(u, 60))
        /\ Has(ins, "achievement_consistency") <=> Len(study_sessions_db[u]) >= 3
        /\ Has(ins, "suggestion_start") <=>
              ~ \/ scored /\ AverageAtLeast(u, 80)
                \/ scored /\ ~AverageAtLeast(u, 60)
                \/ Len(study_sessions_db[u]) >= 3
        /\ \A i \in 1..Len(ins), j \in 1..Len(ins) :
              i < j => \E a \in 1..4, b \in 1..4 :
                          a < b /\ RuleOrder[a] = ins[i] /\ RuleOrder[b] = ins[j]

\* C19: _generate_insights returns between 1 and 5 insights by the ordered
\* rule list: an achievement iff the user has quiz results averaging >= 80,
\* a suggestion iff the user has quiz results averaging < 60, a consistency
\* achievement iff the user has >= 3 study sessions, and the default
\* suggestion iff none of these rules fired.
C19_InsightRules ==
    [][\A u \in Users :
          _generate_insights(u) => InsightsAsRuled(answer'.insights, u)]_vars

\* the insights of u1 with results averaging exactly 80 over two papers and
\* three study sessions: both achievements, in rule order
C19_Witness ==
    /\ answer.op = "insights"
    /\ answer.user_id = "u1"
    /\ answer.insights = <<"achievement_quiz", "achievement_consistency">>
    /\ Len(study_sessions_db["u1"]) >= 3
    /\ Cardinality(ResultsOfUser("u1")) = 2
    /\ SumPercentages("u1", ResultsOfUser("u1")) = Rat(160, 1)

\* ---------------------------------------------------------------- C20
SummaryAsClaimed(summary, u) ==
    LET records == UNION {{<<p, i>> :
                              i \in 1..Len(user_progress_db'[<<u, p>>].concepts_mastery)} :
                          p \in papers_db}
    IN  /\ summary.op = "summary"
        /\ summary.papers_mastered =
              Cardinality({p \in papers_db :
                  user_progress_db'[<<u, p>>].completion_percentage >= 80})
        /\ summary.total_concepts = Cardinality(records)
        /\ summary.concepts_learned =
              Cardinality({r \in records :
                  RatLe(Rat(8, 10),
                        user_progress_db'[<<u, r[1]>>].concepts_mastery[r[2]].mastery_level)})
        /\ summary.average_quiz_score =
              (IF ResultsOfUser(u) = {} THEN Zero
               ELSE RatDivInt(SumPercentages(u, ResultsOfUser(u)),
                              Cardinality(ResultsOfUser(u))))

\* C20: get_progress_summary completes with a ProgressSummary for every user
\* and every state of the stores, never an error: papers_mastered counts the
\* papers with completion_percentage >= 80, total_concepts and
\* concepts_learned count the concept records and those with mastery_level
\* >= 0.8 over the papers, average_quiz_score is the mean score_percentage
\* of all results of the user (0 without results).
C20_SummaryCompletes ==
    [][\A u \in Users :
          get_progress_summary(u) =>
              /\ response' = 200
              /\ SummaryAsClaimed(answer', u)]_vars

\* ---------------------------------------------------------------- C21
\* a step that answers a progress read of user u about paper p
ProgressQuery(u, p) ==
    \/ get_paper_progress(u, p)
    \/ get_concept_mastery(u, p)
    \/ get_concept_progress(u, u, p)
    \/ due_for_review(u, u, p)
    \/ get_retention_stats(u, u, p)

\* the concept ids of the records the read of u about p hands back: those of
\* the answer of the step, or else of the progress it has just refreshed
ReturnedConceptIds(ans, progress) ==
    IF ans.op \in {"concept_progress", "due_for_review"}
    THEN {ans.records[i].concept_id : i \in 1..Len(ans.records)}
    ELSE IF ans.op = None /\ progress # NoProgress
    THEN {progress.concepts_mastery[i].concept_id :
             i \in 1..Len(progress.concepts_mastery)}
    ELSE {}

\* C21: every progress read (paper progress, concept mastery, concept
\* progress, due-for-review, retention) about a paper id with no paper or no
\* concept graph reports not-found instead of a normal result, and no read
\* returns a concept record whose id is not in the paper's current graph.
C21_NotFoundWithoutGraph ==
    [][\A u \in Users, p \in Papers :
          ProgressQuery(u, p) =>
              /\ (p \notin papers_db \/ p \notin DOMAIN concept_graphs_db)
                    => response' = 404
              /\ response' = 200 =>
                    ReturnedConceptIds(answer', user_progress_db'[<<u, p>>])
                        \subseteq PaperConceptIds(concept_graphs_db, p)]_vars

\* ---------------------------------------------------------------- C22
\* the records of a history that parse, in their order
ValidRecords(history) == SelectSeq(history, LAMBDA r : r.parseable)

\* C22: an unparseable record of a persisted history is skipped alone: the
\* restart load keeps every valid record of the same (user, paper) key, every
\* later read aggregates all valid records of the key, and no error reaches
\* the caller.
C22_OnlyCorruptSkipped ==
    [][/\ Lifespan =>
            \A k \in Keys :
                quiz_results_db'[k] = ValidRecords(storage.quiz_results[k])
       /\ \A u \in Users :
            get_paper_progress(u, "p1") /\ "p1" \in papers_db =>
                /\ response' = 200
                /\ ValidRecords(quiz_results_db[<<u, "p1">>]) # <<>> =>
                      user_progress_db'[<<u, "p1">>].quiz_attempts
                          = Len(ValidRecords(quiz_results_db[<<u, "p1">>]))]_vars

\* ---------------------------------------------------------------- C23
\* the four values a progress read reports
ReadValues(progress) ==
    <<progress.concepts_mastery, progress.completion_percentage,
      progress.quiz_attempts, progress.average_quiz_score>>

\* C23: what a progress read returns for a (user, paper) pair is determined
\* by the current history and concept set alone: the read returns what a
\* read of the same history and graph returns when no progress was stored
\* before, whatever UserProgress value it starts from.
C23_HistoryAlone ==
    [][get_paper_progress("u1", "p1") /\ response' = 200 =>
          ReadValues(user_progress_db'[<<"u1", "p1">>])
            = ReadValues(UpdateProgress(UserProgress("u1", "p1", now),
                                        quiz_results_db[<<"u1", "p1">>],
                                        GraphOf("p1"), "p1", now))]_vars

\* ---------------------------------------------------------------- C24
\* every record of the history was graded in this run, answers included
AllGraded(history) ==
    \A i \in 1..Len(history) :
        history[i].parseable /\ "answers" \in DOMAIN history[i]

\* the per-question observations tagged c in the history: (result, question)
Observations(history, c) ==
    UNION {{<<i, j>> : j \in {x \in 1..Len(history[i].answers) :
                                 history[i].answers[x].concept_id = c}} :
           i \in 1..Len(history)}

CorrectObservations(history, c) ==
    {o \in Observations(history, c) : history[o[1]].answers[o[2]].is_correct}

\* every concept with observations has mastery = correct / observed
ObservationMeanHolds(history, concepts_mastery) ==
    \A c \in ConceptIds :
        Observations(history, c) # {} =>
            \A j \in 1..Len(concepts_mastery) :
                concepts_mastery[j].concept_id = c =>
                    concepts_mastery[j].mastery_level.num
                        * Cardinality(Observations(history, c))
                    = Cardinality(CorrectObservations(history, c))
                        * concepts_mastery[j].mastery_level.den

C25_EaseAndIntervalFloors ==
    /\ understanding.ease_factor >= 130
    /\ understanding.interval_days >= 1
    /\ returned.ease_factor >= 130
    /\ returned.interval_days >= 1

\* an update has brought the ease factor down to the floor of 1.3
C25_Witness ==
    /\ updates > 0
    /\ understanding.ease_factor = 130
    /\ understanding.times_quizzed > SeasonedUnderstanding.times_quizzed

\* ---------------------------------------------------------------- C27
CountedAsClaimed(before, after, score) ==
    /\ after.times_quizzed = before.times_quizzed + 1
    /\ after.correct_answers - before.correct_answers \in {0, 1}
    /\ (after.correct_answers = before.correct_answers + 1)
          <=> 2 * score.num >= score.den
    /\ IF after.correct_answers >= after.times_quizzed
       THEN after.confidence_level = One
       ELSE after.confidence_level.num * after.times_quizzed
              = after.correct_answers * after.confidence_level.den
    /\ after.correct_answers <= after.times_quizzed
    /\ RatLe(Zero, after.confidence_level)
    /\ RatLe(after.confidence_level, One)

\* C27: every effective update adds exactly one to times_quizzed, adds one
\* to correct_answers iff the score of the concept is >= 0.5 and sets
\* confidence_level to min(correct_answers / times_quizzed, 1.0); hence
\* correct_answers <= times_quizzed and confidence_level lies in [0,1].
C27_CountersAndConfidence ==
    [][\A cs \in ConceptScoreChoices, c \in {"a", "b"} :
          ScoredStep(cs, c) => CountedAsClaimed(understanding, understanding', cs[c])]_vars

\* a fresh record after one update with score 0.5 (counted correct) and one
\* with score 0.25 (not counted): confidence 1/2
C27_Witness ==
    /\ understanding.times_quizzed = 2
    /\ understanding.correct_answers = 1
    /\ understanding.confidence_level = Rat(1, 2)
    /\ understanding.ease_factor = 230

\* ---------------------------------------------------------------- C28
\* the inclusive breakpoints of the qualities 1..5, in hundredths
Breakpoints == <<20, 40, 60, 80, 95>>

QualityByBreakpoints(score, quality) ==
    /\ quality \in 0..5
    /\ \A q \in 1..5 :
          quality >= q <=> 100 * score.num >= Breakpoints[q] * score.den
    /\ quality < 3 <=> 10 * score.num < 6 * score.den

\* C28: _score_to_quality maps every score in [0,1] to a quality in 0..5 by
\* the inclusive breakpoints 0.95, 0.8, 0.6, 0.4, 0.2; the mapping is
\* monotone non-decreasing, and a score is a failed recall (quality < 3)
\* exactly when it is below 0.6.
C28_QualityBreakpoints ==
    [][\A score \in QualityScores :
          _score_to_quality(score) =>
              /\ QualityByBreakpoints(score, answer'.quality)
              /\ answer.op = "quality" =>
                    (RatLe(answer.score, score) => answer.quality <= answer'.quality)]_vars

\* the score 0.6 itself is mapped to quality 3
C28_Witness ==
    /\ answer.op = "quality"
    /\ answer.score = Rat(3, 5)
    /\ answer.quality = 3

\* ---------------------------------------------------------------- C26
\* no concept reported before and after has a smaller counter after
CountersKept(before, after) ==
    \A i \in 1..Len(before), j \in 1..Len(after) :
        before[i].concept_id = after[j].concept_id =>
            /\ after[j].times_quizzed >= before[i].times_quizzed
            /\ after[j].times_reviewed >= before[i].times_reviewed

\* C26: with a fixed concept graph, across any sequence of submissions and
\* reads of a (user, paper) pair, the times_quizzed and times_reviewed
\* reported for a concept never decrease from one read to a later read (the
\* stored progress is what the read before reported).
C26_CountersNeverDecrease ==
    [][\A u \in Users :
          /\ get_paper_progress(u, "p1")
          /\ response' = 200
          /\ user_progress_db[<<u, "p1">>] # NoProgress
          => CountersKept(user_progress_db[<<u, "p1">>].concepts_mastery,
                          user_progress_db'[<<u, "p1">>].concepts_mastery)]_vars

\* u1, whose restored history scores "a" once, has submitted twice more and
\* reads counters of 3 for a concept
C26_Witness ==
    /\ Len(quiz_results_db[<<"u1", "p1">>]) = 3
    /\ user_progress_db[<<"u1", "p1">>] # NoProgress
    /\ \E j \in 1..Len(user_progress_db[<<"u1", "p1">>].concepts_mastery) :
          /\ user_progress_db[<<"u1", "p1">>].concepts_mastery[j].times_quizzed >= 2
          /\ user_progress_db[<<"u1", "p1">>].concepts_mastery[j].times_reviewed >= 2

\* ---------------------------------------------------------------- C29
\* C29: for records reached from a fresh record by any sequence of updates,
\* calculate_retention_rate counts no record as both mastered and
\* struggling: the three counts are each >= 0 and sum to the number of
\* records.
C29_DisjointClasses ==
    [][retention_of_record =>
          /\ answer'.stats.concepts_mastered >= 0
          /\ answer'.stats.concepts_struggling >= 0
          /\ answer'.stats.concepts_in_progress >= 0
          /\ answer'.stats.concepts_mastered + answer'.stats.concepts_struggling
                + answer'.stats.concepts_in_progress = 1
          /\ ~ /\ answer'.stats.concepts_mastered = 1
               /\ answer'.stats.concepts_struggling = 1]_vars

\* ---------------------------------------------------------------- C30
\* the sessions without those that start on a day an earlier session of the
\* list starts on: one session per day of the same set of days
OnePerDay(sessions) ==
    SelectSeq([i \in 1..Len(sessions) |->
                  [sessions[i] EXCEPT !.paper_id =
                      IF \E j \in 1..(i - 1) :
                            sessions[j].start_time = sessions[i].start_time
                      THEN None ELSE @]],
              LAMBDA x : x.paper_id # None)

\* C30: the streak depends only on the set of days that have a session: the
\* further sessions started on a day that already has one never change the
\* value _calculate_study_streak returns.
C30_SetOfDaysOnly ==
    [][_calculate_study_streak("u1") =>
          answer'.streak
            = CalculateStudyStreak(OnePerDay(study_sessions_db["u1"]), now)]_vars

====
